---- MODULE Spec2Model ----
(***************************************************************************)
(* Model of the Metal backend device (src/backend/metal/src/device.rs):    *)
(* descriptor set layout construction and the resource binding compiler    *)
(* (create_pipeline_layout).                                               *)
(***************************************************************************)
EXTENDS Integers, Sequences, FiniteSets, TLC

VARIABLES
    debug_assertions,     \* build profile: debug_assert! is compiled in
    argument_buffers,     \* private_caps.argument_buffers of the device
    set_layouts,          \* descriptor set layouts created so far, in creation order
    push_constant_ranges, \* argument of the last create_pipeline_layout call
    pipeline_layout,      \* result of the last create_pipeline_layout call
    pl_trace,             \* stage_infos/binding_map after the push constants and after each set
    aborted,              \* name of the call that panicked, "" while running
    memory_types,         \* PhysicalDevice.memory_types, <<>> before PhysicalDevice::new
    memories,             \* n::Memory objects allocated so far
    buffers,              \* n::Buffer objects created so far
    images,               \* n::Image objects created so far
    next_raw,             \* number of native buffers and textures the driver has created
    command_buffers,      \* command buffers committed so far, with their queue
    memory_call,          \* the last memory or resource call: arguments and outcome
    fences,               \* n::Fence objects created so far
    events,               \* n::Event objects created so far: the value of each AtomicBool
    submissions,          \* command buffers submitted with a fence: completed or not
    now,                  \* the monotonic clock, in milliseconds
    sync_call,            \* the last fence or event call: arguments, progress and outcome
    visibility,           \* Shared.visibility: allocator, its lock, availability flags, condvar
    pools,                \* n::QueryPool objects created so far
    threads,              \* the threads working on query results: position and result
    query_call,           \* the last query pool call: arguments and outcome
    function_call,        \* the last call of a function looked at on its own
    features,             \* cargo features the backend is built with
    pipeline_cache,       \* n::PipelineCache: the spv_to_msl map and its lock
    translations,         \* runs of naga::back::msl::write_string: by which thread
    shaders               \* the threads in load_shader: arguments, position, outcome

\* the pipeline layout compiler
layout_vars == <<debug_assertions, argument_buffers, set_layouts, push_constant_ranges,
                 pipeline_layout, pl_trace>>

\* memory heaps, buffers and images
memory_vars == <<memory_types, memories, buffers, images, next_raw, command_buffers,
                 memory_call>>

\* fences and events
sync_vars == <<fences, events, submissions, now, sync_call>>

\* occlusion query pools and the visibility tracker
query_vars == <<visibility, pools, threads, query_call>>

\* shader translation
shader_vars == <<features, pipeline_cache, translations, shaders>>

vars == <<layout_vars, aborted, memory_vars, sync_vars, query_vars, function_call,
          shader_vars>>

\* everything but the pipeline layout compiler and `aborted`
outside_layout == <<memory_vars, sync_vars, query_vars, function_call, shader_vars>>

\* everything but memory, buffers, images and `aborted`
outside_memory == <<layout_vars, sync_vars, query_vars, function_call, shader_vars>>

\* everything but fences, events and `aborted`
outside_sync == <<layout_vars, memory_vars, query_vars, function_call, shader_vars>>

\* everything but shader translation and `aborted`
outside_shader == <<layout_vars, memory_vars, sync_vars, query_vars, function_call>>

\* everything but the function looked at on its own and `aborted`
outside_function == <<layout_vars, memory_vars, sync_vars, query_vars, shader_vars>>

\* everything but query pools and `aborted`
outside_query == <<layout_vars, memory_vars, sync_vars, function_call, shader_vars>>

(***************************************************************************)
(* Bounds of the model.                                                    *)
(***************************************************************************)
MaxSets == 3            \* descriptor set layouts passed to create_pipeline_layout
MaxPcRanges == 2        \* push constant ranges passed to create_pipeline_layout
MaxBindings == 3        \* declared bindings passed to create_descriptor_set_layout
\* private_caps limits of the modelled device (scaled down)
max_buffers_per_stage == 4
max_textures_per_stage == 3
max_samplers_per_stage == 2

(***************************************************************************)
(* Program constants.                                                      *)
(***************************************************************************)
LIMIT_MASK == 3
\* !0 as ResourceIndex, the all-ones word, written as its two's complement value
InvalidSlot == 0 - 1

(***************************************************************************)
(* Small helpers.                                                          *)
(***************************************************************************)
None == <<>>
Some(x) == <<x>>
IsSome(o) == o # <<>>
Unwrap(o) == o[1]

MaxOf(a, b) == IF a >= b THEN a ELSE b

SeqsUpTo(S, n) == UNION {[1..k -> S] : k \in 0..n}

MapInsert(m, k, v) == [x \in (DOMAIN m) \cup {k} |-> IF x = k THEN v ELSE m[x]]

(***************************************************************************)
(* Shader stages: stage_infos is ordered Vertex, Fragment, Compute.        *)
(***************************************************************************)
StageOrder == <<"Vertex", "Fragment", "Compute">>

ShaderStageFlags == {"VERTEX", "FRAGMENT", "COMPUTE"}

\* info.stage.into(): naga::ShaderStage -> pso::ShaderStageFlags
StageFlag(stage) ==
    CASE stage = "Vertex" -> "VERTEX"
      [] stage = "Fragment" -> "FRAGMENT"
      [] stage = "Compute" -> "COMPUTE"

(***************************************************************************)
(* n::DescriptorContent and n::ResourceData (native.rs).                   *)
(***************************************************************************)
\* impl From<pso::DescriptorType> for n::DescriptorContent
DescriptorContentFrom(ty) ==
    CASE ty = "Sampler" -> {"SAMPLER"}
      [] ty = "CombinedImageSampler" -> {"TEXTURE", "SAMPLER"}
      [] ty = "SampledImage" -> {"TEXTURE"}
      [] ty = "StorageImage" -> {"TEXTURE", "WRITABLE"}
      [] ty = "UniformBuffer" -> {"BUFFER"}
      [] ty = "UniformBufferDynamic" -> {"BUFFER", "DYNAMIC_BUFFER"}
      [] ty = "StorageBuffer" -> {"BUFFER", "SIZED_BUFFER", "WRITABLE"}
      [] ty = "StorageTexelBuffer" -> {"TEXTURE", "SIZED_BUFFER", "WRITABLE"}
      [] ty = "InputAttachment" -> {"TEXTURE"}

ResourceDataNew == [buffers |-> 0, textures |-> 0, samplers |-> 0]

\* ResourceData::add_many
AddMany(counters, content, count) ==
    [buffers |-> counters.buffers + (IF "BUFFER" \in content THEN count ELSE 0),
     textures |-> counters.textures + (IF "TEXTURE" \in content THEN count ELSE 0),
     samplers |-> counters.samplers + (IF "SAMPLER" \in content THEN count ELSE 0)]

\* ResourceData::add
Add(counters, content) == AddMany(counters, content, 1)

(***************************************************************************)
(* create_descriptor_set_layout                                            *)
(***************************************************************************)
\* the (binding, array_index) sort key of a DescriptorLayout
SameKey(a, b) == a.binding = b.binding /\ a.array_index = b.array_index

KeyLeq(a, b) ==
    \/ a.binding < b.binding
    \/ a.binding = b.binding /\ a.array_index <= b.array_index

\* content of the entries of one declared binding
SlbContent(slb) ==
    DescriptorContentFrom(slb.ty)
        \cup (IF slb.immutable_samplers THEN {"IMMUTABLE_SAMPLER"} ELSE {})

\* desc_layouts.extend((0..slb.count).map(...))
ExpandBinding(slb) ==
    [i \in 1..slb.count |->
        [content |-> SlbContent(slb),
         stages |-> slb.stage_flags,
         binding |-> slb.binding,
         array_index |-> i - 1]]

RECURSIVE ExtendLayouts(_)
ExtendLayouts(binding_iter) ==
    IF binding_iter = <<>> THEN <<>>
    ELSE ExpandBinding(Head(binding_iter)) \o ExtendLayouts(Tail(binding_iter))

\* total.add_many(content, slb.count) over the declared bindings
RECURSIVE TotalOf(_)
TotalOf(binding_iter) ==
    IF binding_iter = <<>> THEN ResourceDataNew
    ELSE LET n == Len(binding_iter)
             slb == binding_iter[n]
         IN AddMany(TotalOf(SubSeq(binding_iter, 1, n - 1)),
                    DescriptorContentFrom(slb.ty), slb.count)

\* sort_by_key is a stable sort
RECURSIVE InsertStable(_, _)
InsertStable(sorted, x) ==
    IF sorted = <<>> THEN <<x>>
    ELSE IF KeyLeq(Head(sorted), x)
         THEN <<Head(sorted)>> \o InsertStable(Tail(sorted), x)
         ELSE <<x>> \o sorted

RECURSIVE SortByKey(_)
SortByKey(s) ==
    IF s = <<>> THEN <<>>
    ELSE InsertStable(SortByKey(SubSeq(s, 1, Len(s) - 1)), s[Len(s)])

\* the closure of desc_layouts.dedup_by: `a` is the candidate, `b` the last
\* retained entry; the result is <<remove a, b afterwards, a debug assertion failed>>
DedupSameBucket(a, b) ==
    IF SameKey(a, b)
    THEN [remove |-> TRUE,
          b |-> [b EXCEPT !.stages = b.stages \cup a.stages],
          assert_failed |-> (b.stages \cap a.stages # {}) \/ a.content # b.content]
    ELSE [remove |-> FALSE, b |-> b, assert_failed |-> FALSE]

\* Vec::dedup_by: acc = [out |-> retained entries, assert_failed |-> BOOLEAN]
RECURSIVE DedupBy(_, _)
DedupBy(acc, rest) ==
    IF rest = <<>> THEN acc
    ELSE IF acc.out = <<>>
         THEN DedupBy([acc EXCEPT !.out = <<Head(rest)>>], Tail(rest))
         ELSE LET n == Len(acc.out)
                  r == DedupSameBucket(Head(rest), acc.out[n])
              IN IF r.remove
                 THEN DedupBy([out |-> [acc.out EXCEPT ![n] = r.b],
                               assert_failed |-> acc.assert_failed \/ r.assert_failed],
                              Tail(rest))
                 ELSE DedupBy([acc EXCEPT !.out = Append(acc.out, Head(rest))], Tail(rest))

\* tmp_samplers ... .map(|ts| (ts.binding, ts.data)).collect(): the bindings that
\* carry immutable samplers
ImmutableSamplerBindings(binding_iter) ==
    {binding_iter[i].binding : i \in {j \in DOMAIN binding_iter :
        binding_iter[j].immutable_samplers /\ binding_iter[j].count > 0}}

\* the ArgumentBuffer branch: stage_flags |= desc.stage_flags
RECURSIVE UnionStageFlags(_)
UnionStageFlags(binding_iter) ==
    IF binding_iter = <<>> THEN {}
    ELSE Head(binding_iter).stage_flags \cup UnionStageFlags(Tail(binding_iter))

\* result of create_descriptor_set_layout: tag "Ok" with the layout, or "Panic"
\* when a debug assertion fails in a build that has them
create_descriptor_set_layout(binding_iter, use_argument_buffers, debug) ==
    IF use_argument_buffers
    THEN [tag |-> "Ok",
          value |-> [kind |-> "ArgumentBuffer",
                     stage_flags |-> UnionStageFlags(binding_iter)]]
    ELSE LET d == DedupBy([out |-> <<>>, assert_failed |-> FALSE],
                          SortByKey(ExtendLayouts(binding_iter)))
         IN IF debug /\ d.assert_failed
            THEN [tag |-> "Panic"]
            ELSE [tag |-> "Ok",
                  value |-> [kind |-> "Emulated",
                             layouts |-> d.out,
                             total |-> TotalOf(binding_iter),
                             immutable_samplers |-> ImmutableSamplerBindings(binding_iter)]]

(***************************************************************************)
(* create_pipeline_layout                                                  *)
(***************************************************************************)
StageIndices == 1..Len(StageOrder)

Stages == {StageOrder[i] : i \in StageIndices}

\* let mut stage_infos = [...]
InitialStageInfos ==
    [i \in StageIndices |->
        [stage |-> StageOrder[i],
         counters |-> ResourceDataNew,
         push_constant_buffer |-> None,
         sizes_buffer |-> None,
         sizes_count |-> 0]]

\* *limit = (range.end / 4).max(*limit) over the ranges whose flags contain the stage
RECURSIVE PcLimitOf(_, _)
PcLimitOf(stage, ranges) ==
    IF ranges = <<>> THEN 0
    ELSE LET n == Len(ranges)
             prev == PcLimitOf(stage, SubSeq(ranges, 1, n - 1))
         IN IF StageFlag(stage) \in ranges[n].flags
            THEN MaxOf(ranges[n].range.end \div 4, prev)
            ELSE prev

\* x & !mask on u32, for a mask of low bits
AndNot(x, mask) == x - (x % (mask + 1))

\* mutant: every limit is rounded up, the small ones too
RoundLimitAlways(limit) == AndNot(limit + LIMIT_MASK, LIMIT_MASK)

\* if *limit > LIMIT_MASK { *limit = (*limit + LIMIT_MASK) & !LIMIT_MASK }
\* (limit is a u32 byte offset divided by 4, so the addition cannot wrap)
RoundLimit(limit) ==
    IF limit > LIMIT_MASK
    THEN AndNot(limit + LIMIT_MASK, LIMIT_MASK)
    ELSE limit

pc_limits(ranges) == [i \in StageIndices |-> RoundLimit(PcLimitOf(StageOrder[i], ranges))]

\* mutant: the push constant slot is recorded but the counter is not advanced
PlacePushConstantNoAdvance(info, limit) ==
    IF limit # 0
    THEN [info EXCEPT !.push_constant_buffer = Some(info.counters.buffers)]
    ELSE info

\* mutant: only limits above LIMIT_MASK get a push constant slot
PlacePushConstantAboveMask(info, limit) ==
    IF limit > LIMIT_MASK
    THEN [info EXCEPT !.push_constant_buffer = Some(info.counters.buffers),
                      !.counters.buffers = info.counters.buffers + 1]
    ELSE info

\* handle the push constant buffer assignment
PlacePushConstant(info, limit) ==
    IF limit # 0
    THEN [info EXCEPT !.push_constant_buffer = Some(info.counters.buffers),
                      !.counters.buffers = info.counters.buffers + 1]
    ELSE info

\* state of the allocation loop
InitialPlacement(ranges) ==
    [stage_infos |-> LET limits == pc_limits(ranges)
                     IN [i \in StageIndices |->
                            PlacePushConstant(InitialStageInfos[i], limits[i])],
     binding_map |-> <<>>,
     argument_buffer_bindings |-> <<>>,
     inline_samplers |-> <<>>,
     infos |-> <<>>,
     dynamic_buffers |-> <<>>,
     sized_buffer_bindings |-> <<>>,
     panicked |-> FALSE,
     trace |-> <<>>]

\* what the allocation loop has done so far: the counters of the stages, the
\* sources of the binding map and the ArgumentBuffer slots
Snapshot(st) ==
    [counters |-> [i \in StageIndices |-> st.stage_infos[i].counters],
     sources |-> DOMAIN st.binding_map,
     argument_buffer_bindings |-> st.argument_buffer_bindings]

\* the snapshot taken after the push constants (index 1) and after the
\* descriptor set of index k - 2 (index k)
Traced(st) == [st EXCEPT !.trace = Append(@, Snapshot(st))]

\* sized_buffer_bindings.push(..) and stage_infos[i].sizes_count += 1 (a u8)
CountSized(st, layout) ==
    IF "SIZED_BUFFER" \in layout.content
    THEN [st EXCEPT
            !.sized_buffer_bindings = Append(@, <<layout.binding, layout.stages>>),
            !.stage_infos = [i \in StageIndices |->
                IF StageFlag(StageOrder[i]) \in layout.stages
                THEN [@[i] EXCEPT !.sizes_count = (@ + 1) % 256]
                ELSE @[i]]]
    ELSE st

\* dynamic_buffers.alloc().init(n::MultiStageData { vs, ps, cs })
PushDynamic(st, layout) ==
    IF "DYNAMIC_BUFFER" \in layout.content
    THEN [st EXCEPT !.dynamic_buffers = Append(@,
            [i \in StageIndices |->
                IF StageFlag(StageOrder[i]) \in layout.stages
                THEN st.stage_infos[i].counters.buffers
                ELSE InvalidSlot])]
    ELSE st

\* mutant: the texture slot is taken from the buffer counter
BindTargetSharedCounter(info, layout, inline_len) ==
    [buffer |-> IF "BUFFER" \in layout.content
                THEN Some(info.counters.buffers) ELSE None,
     texture |-> IF "TEXTURE" \in layout.content
                 THEN Some(info.counters.buffers) ELSE None,
     sampler |-> IF "IMMUTABLE_SAMPLER" \in layout.content
                 THEN Some([kind |-> "Inline", index |-> inline_len])
                 ELSE IF "SAMPLER" \in layout.content
                      THEN Some([kind |-> "Resource", index |-> info.counters.samplers])
                      ELSE None,
     mutable |-> "WRITABLE" \in layout.content]

\* naga::back::msl::BindTarget for one layout entry in one stage
BindTarget(info, layout, inline_len) ==
    [buffer |-> IF "BUFFER" \in layout.content
                THEN Some(info.counters.buffers) ELSE None,
     texture |-> IF "TEXTURE" \in layout.content
                 THEN Some(info.counters.textures) ELSE None,
     sampler |-> IF "IMMUTABLE_SAMPLER" \in layout.content
                 THEN Some([kind |-> "Inline", index |-> inline_len])
                 ELSE IF "SAMPLER" \in layout.content
                      THEN Some([kind |-> "Resource", index |-> info.counters.samplers])
                      ELSE None,
     mutable |-> "WRITABLE" \in layout.content]

\* mutant: every array element records a binding_map entry
RecordsSourceAlways(layout) == layout.array_index >= 0

\* whether the entry gets a binding_map entry: if layout.array_index == 0
RecordsSource(layout) == layout.array_index = 0

\* body of `for info in stage_infos.iter_mut()` for the stage at index i
PlaceInStage(st, set_index, set_layout, layout, i) ==
    LET info == st.stage_infos[i]
        immutable == "IMMUTABLE_SAMPLER" \in layout.content
        target == BindTarget(info, layout, Len(st.inline_samplers))
        source == [stage |-> info.stage, group |-> set_index, binding |-> layout.binding]
    IN IF StageFlag(info.stage) \notin layout.stages
       THEN st
       ELSE [st EXCEPT
                !.panicked = @ \/ (immutable
                                   /\ layout.binding \notin set_layout.immutable_samplers),
                !.inline_samplers = IF immutable
                                    THEN Append(@, <<set_index, layout.binding>>) ELSE @,
                !.stage_infos[i].counters = Add(info.counters, layout.content),
                !.binding_map = IF RecordsSource(layout)
                                THEN MapInsert(@, source, target) ELSE @]

\* for info in stage_infos.iter_mut(), from the stage at index i on
RECURSIVE PlaceInStages(_, _, _, _, _)
PlaceInStages(st, set_index, set_layout, layout, i) ==
    IF st.panicked \/ i > Len(StageOrder) THEN st
    ELSE PlaceInStages(PlaceInStage(st, set_index, set_layout, layout, i),
                       set_index, set_layout, layout, i + 1)

\* body of `for layout in desc_layouts.iter()`
PlaceLayout(st, set_index, set_layout, layout) ==
    PlaceInStages(PushDynamic(CountSized(st, layout), layout),
                  set_index, set_layout, layout, 1)

\* for layout in desc_layouts.iter(), from the entry at position k on
RECURSIVE PlaceLayouts(_, _, _, _)
PlaceLayouts(st, set_index, set_layout, k) ==
    IF st.panicked \/ k > Len(set_layout.layouts) THEN st
    ELSE PlaceLayouts(PlaceLayout(st, set_index, set_layout, set_layout.layouts[k]),
                      set_index, set_layout, k + 1)

\* mutant: the argument buffer is placed in every stage
PlaceArgumentBufferEveryStage(st, set_index, set_layout, i) ==
    LET info == st.stage_infos[i]
    IN [st EXCEPT
            !.argument_buffer_bindings =
                MapInsert(@, <<info.stage, set_index>>, info.counters.buffers),
            !.stage_infos[i].counters.buffers = info.counters.buffers + 1]

\* the ArgumentBuffer arm, for the stage at index i
PlaceArgumentBuffer(st, set_index, set_layout, i) ==
    LET info == st.stage_infos[i]
    IN IF StageFlag(info.stage) \notin set_layout.stage_flags
       THEN st
       ELSE [st EXCEPT
                !.argument_buffer_bindings =
                    MapInsert(@, <<info.stage, set_index>>, info.counters.buffers),
                !.stage_infos[i].counters.buffers = info.counters.buffers + 1]

RECURSIVE PlaceArgumentBuffers(_, _, _, _)
PlaceArgumentBuffers(st, set_index, set_layout, i) ==
    IF st.panicked \/ i > Len(StageOrder) THEN st
    ELSE PlaceArgumentBuffers(PlaceArgumentBuffer(st, set_index, set_layout, i),
                              set_index, set_layout, i + 1)

\* body of `for (set_index, set_layout) in set_layouts.enumerate()`
PlaceSet(st, set_index, set_layout) ==
    LET offsets == [i \in StageIndices |-> st.stage_infos[i].counters]
        st0 == [st EXCEPT !.dynamic_buffers = <<>>, !.sized_buffer_bindings = <<>>]
        st1 == IF set_layout.kind = "Emulated"
               THEN PlaceLayouts(st0, set_index, set_layout, 1)
               ELSE PlaceArgumentBuffers(st0, set_index, set_layout, 1)
    IN Traced([st1 EXCEPT !.infos = Append(@,
            [offsets |-> offsets,
             dynamic_buffers |-> st1.dynamic_buffers,
             sized_buffer_bindings |-> st1.sized_buffer_bindings])])

\* for (set_index, set_layout) in set_layouts.enumerate(): the sets at positions
\* k..upto of the sequence (set_index counts from 0)
RECURSIVE PlaceSets(_, _, _, _)
PlaceSets(st, layouts, k, upto) ==
    IF st.panicked \/ k > upto THEN st
    ELSE PlaceSets(PlaceSet(st, k - 1, layouts[k]), layouts, k + 1, upto)

\* mutant: the sizes buffer does not take a slot of its own
PlaceSizesBufferNoAdvance(info) ==
    IF info.sizes_count # 0
    THEN [info EXCEPT !.sizes_buffer = Some(info.counters.buffers)]
    ELSE info

\* handle the sizes buffer assignment
PlaceSizesBuffer(info) ==
    IF info.sizes_count # 0
    THEN [info EXCEPT !.sizes_buffer = Some(info.counters.buffers),
                      !.counters.buffers = info.counters.buffers + 1]
    ELSE info

\* mutant: the sampler limit is not tested
ExceedsLimitsNoSamplers(info) ==
    \/ info.counters.buffers > max_buffers_per_stage
    \/ info.counters.textures > max_textures_per_stage

\* the limit test of the final loop
ExceedsLimits(info) ==
    \/ info.counters.buffers > max_buffers_per_stage
    \/ info.counters.textures > max_textures_per_stage
    \/ info.counters.samplers > max_samplers_per_stage

PushConstantInfo(info, limit) ==
    IF IsSome(info.push_constant_buffer)
    THEN Some([count |-> limit, buffer_index |-> Unwrap(info.push_constant_buffer)])
    ELSE None

\* the descriptor sets placed after the push constants
Placement(layouts, ranges) ==
    PlaceSets(Traced(InitialPlacement(ranges)), layouts, 1, Len(layouts))

\* the final loop and the returned value, from the state `st` of the allocation
create_pipeline_layout(st, ranges) ==
    LET final == [i \in StageIndices |-> PlaceSizesBuffer(st.stage_infos[i])]
        limits == pc_limits(ranges)
    IN IF st.panicked THEN [tag |-> "Panic"]
       ELSE IF \E i \in StageIndices : ExceedsLimits(final[i])
       THEN [tag |-> "Err", error |-> "OutOfMemory::Host"]
       ELSE [tag |-> "Ok",
             value |->
               [binding_map |-> st.binding_map,
                inline_samplers |-> st.inline_samplers,
                argument_buffer_bindings |-> st.argument_buffer_bindings,
                per_stage_map |-> [i \in StageIndices |->
                    [push_constant_buffer |-> final[i].push_constant_buffer,
                     sizes_buffer |-> final[i].sizes_buffer]],
                infos |-> st.infos,
                total |-> [i \in StageIndices |-> final[i].counters],
                push_constants |-> [i \in StageIndices |->
                                        PushConstantInfo(final[i], limits[i])],
                total_push_constants |->
                    MaxOf(MaxOf(limits[1], limits[2]), limits[3])]]

(***************************************************************************)
(* Inputs of the calls.                                                    *)
(***************************************************************************)
Slb(binding, ty, count, stage_flags, immutable_samplers) ==
    [binding |-> binding, ty |-> ty, count |-> count,
     stage_flags |-> stage_flags, immutable_samplers |-> immutable_samplers]

PcRange(flags, end) == [flags |-> flags, range |-> [start |-> 0, end |-> end]]

\* declared binding lists used to build the sets of a pipeline layout
SetBindingIters ==
    { <<Slb(0, "UniformBuffer", 1, {"VERTEX", "FRAGMENT"}, FALSE),
        Slb(1, "SampledImage", 1, {"FRAGMENT"}, FALSE)>>,
      <<Slb(1, "Sampler", 2, {"FRAGMENT", "COMPUTE"}, FALSE),
        Slb(0, "StorageBuffer", 1, {"VERTEX", "COMPUTE"}, FALSE)>>,
      <<Slb(0, "CombinedImageSampler", 2, {"VERTEX"}, FALSE),
        Slb(0, "CombinedImageSampler", 1, {"FRAGMENT"}, FALSE)>>,
      <<Slb(0, "Sampler", 1, {"VERTEX", "FRAGMENT"}, TRUE),
        Slb(1, "UniformBufferDynamic", 2, {"FRAGMENT"}, FALSE)>>,
      <<Slb(1, "StorageTexelBuffer", 1, {"COMPUTE"}, FALSE)>>,
      <<>> }

\* push constant ranges of the pipeline layout scenarios
SetPcRangeSeqs ==
    { <<>>,
      <<PcRange({"VERTEX"}, 64)>>,
      <<PcRange({"FRAGMENT", "COMPUTE"}, 8)>>,
      <<PcRange({"VERTEX"}, 64), PcRange({"FRAGMENT", "COMPUTE"}, 8)>>,
      <<PcRange({"VERTEX", "COMPUTE"}, 20), PcRange({"VERTEX"}, 8)>> }

\* push constant ranges of the push constant scenarios
PushPcRanges ==
    { PcRange(f, e) : f \in {{"VERTEX"}, {"FRAGMENT"}, {"VERTEX", "COMPUTE"}},
                      e \in {4, 8, 12, 16, 20, 64} }

PushBindingIters ==
    { <<Slb(0, "UniformBuffer", 1, {"VERTEX", "FRAGMENT"}, FALSE)>>,
      <<Slb(0, "StorageBuffer", 1, {"COMPUTE"}, FALSE)>> }

\* declared bindings of the descriptor set layout scenarios
LayoutBindings ==
    { Slb(b, ty, c, f, FALSE) :
        b \in {0, 1}, ty \in {"UniformBuffer", "Sampler"}, c \in {1, 2},
        f \in {{"VERTEX"}, {"FRAGMENT"}} }
    \cup { Slb(0, "Sampler", 2, {"COMPUTE"}, FALSE),
           Slb(0, "Sampler", 1, {"VERTEX", "FRAGMENT"}, FALSE),
           Slb(0, "Sampler", 1, {"COMPUTE"}, TRUE) }

(***************************************************************************)
(* The state machine.                                                      *)
(***************************************************************************)
NoPipelineLayout == [tag |-> "None"]

\* no call has been made yet
NoCall == [op |-> "None"]

\* the visibility tracker before the device is opened
NoVisibility == [tag |-> "None"]

Init ==
    /\ debug_assertions \in BOOLEAN
    /\ argument_buffers \in BOOLEAN
    /\ set_layouts = <<>>
    /\ push_constant_ranges = <<>>
    /\ pipeline_layout = NoPipelineLayout
    /\ pl_trace = <<>>
    /\ aborted = ""
    /\ memory_types = <<>>
    /\ memories = <<>>
    /\ buffers = <<>>
    /\ images = <<>>
    /\ next_raw = 0
    /\ command_buffers = <<>>
    /\ memory_call = NoCall
    /\ fences = <<>>
    /\ events = <<>>
    /\ submissions = <<>>
    /\ now = 0
    /\ sync_call = NoCall
    /\ visibility = NoVisibility
    /\ pools = <<>>
    /\ threads = <<>>
    /\ query_call = NoCall
    /\ function_call = NoCall
    /\ features = [tag |-> "None"]
    /\ pipeline_cache = [spv_to_msl |-> <<>>, lock |-> 0]
    /\ translations = <<>>
    /\ shaders = <<>>

\* the calls outside the pipeline layout compiler depend neither on the build
\* profile nor on argument buffers: one configuration stands for all
InitDevice == Init /\ debug_assertions /\ ~argument_buffers

\* Device::create_descriptor_set_layout; `declared` keeps the bindings the
\* layout was created from
CreateDescriptorSetLayout(binding_iter, max_live) ==
    /\ aborted = ""
    /\ pipeline_layout.tag = "None"
    /\ Len(set_layouts) < max_live
    /\ LET r == create_descriptor_set_layout(binding_iter, argument_buffers,
                                             debug_assertions)
       IN IF r.tag = "Panic"
          THEN /\ aborted' = "create_descriptor_set_layout"
               /\ UNCHANGED set_layouts
          ELSE /\ set_layouts' = Append(set_layouts,
                                        [layout |-> r.value, declared |-> binding_iter])
               /\ UNCHANGED aborted
    /\ UNCHANGED <<debug_assertions, argument_buffers, push_constant_ranges,
                   pipeline_layout, pl_trace>>
    /\ UNCHANGED outside_layout

\* Device::destroy_descriptor_set_layout: the caller gives up its newest layout
DestroyDescriptorSetLayout ==
    /\ aborted = ""
    /\ pipeline_layout.tag = "None"
    /\ set_layouts # <<>>
    /\ set_layouts' = SubSeq(set_layouts, 1, Len(set_layouts) - 1)
    /\ UNCHANGED <<debug_assertions, argument_buffers, push_constant_ranges,
                   pipeline_layout, pl_trace, aborted>>
    /\ UNCHANGED outside_layout

SetLayoutsOf(created) == [i \in DOMAIN created |-> created[i].layout]

\* Device::create_pipeline_layout over the layouts created so far
CreatePipelineLayout(ranges) ==
    /\ aborted = ""
    /\ pipeline_layout.tag = "None"
    /\ LET st == Placement(SetLayoutsOf(set_layouts), ranges)
           r == create_pipeline_layout(st, ranges)
       IN IF r.tag = "Panic"
          THEN /\ aborted' = "create_pipeline_layout"
               /\ UNCHANGED <<pipeline_layout, push_constant_ranges, pl_trace>>
          ELSE /\ pipeline_layout' = r
               /\ push_constant_ranges' = ranges
               /\ pl_trace' = st.trace
               /\ UNCHANGED aborted
    /\ UNCHANGED <<debug_assertions, argument_buffers, set_layouts>>
    /\ UNCHANGED outside_layout

\* Device::destroy_pipeline_layout
DestroyPipelineLayout ==
    /\ aborted = ""
    /\ pipeline_layout.tag # "None"
    /\ pipeline_layout' = NoPipelineLayout
    /\ push_constant_ranges' = <<>>
    /\ pl_trace' = <<>>
    /\ UNCHANGED <<debug_assertions, argument_buffers, set_layouts, aborted>>
    /\ UNCHANGED outside_layout

\* pipeline layouts over up to MaxSets descriptor set layouts
\* no call is in progress and no pipeline layout is held
Idle == aborted = "" /\ pipeline_layout.tag = "None"

Next ==
    \/ Idle /\ \E b \in SetBindingIters : CreateDescriptorSetLayout(b, MaxSets)
    \/ Idle /\ \E r \in SetPcRangeSeqs : CreatePipelineLayout(r)
    \/ DestroyPipelineLayout

Spec == Init /\ [][Next]_vars

\* push constant placement: many ranges, at most one descriptor set
PushPcRangeSeqs == SeqsUpTo(PushPcRanges, MaxPcRanges)

NextPush ==
    \/ Idle /\ \E b \in PushBindingIters : CreateDescriptorSetLayout(b, 1)
    \/ Idle /\ \E r \in PushPcRangeSeqs : CreatePipelineLayout(r)
    \/ DestroyPipelineLayout

SpecPush == Init /\ [][NextPush]_vars

\* descriptor set layouts, one live layout at a time
LayoutBindingIters == SeqsUpTo(LayoutBindings, MaxBindings)

NextLayout ==
    \/ Idle /\ set_layouts = <<>>
        /\ \E b \in LayoutBindingIters : CreateDescriptorSetLayout(b, 1)
    \/ DestroyDescriptorSetLayout

SpecLayout == Init /\ [][NextLayout]_vars

(***************************************************************************)
(* Vocabulary of the properties: what the inputs of the last               *)
(* create_pipeline_layout call declare, counted directly from the layout   *)
(* lists and the push constant ranges.                                     *)
(***************************************************************************)
Categories == {"BUFFER", "TEXTURE", "SAMPLER"}

InputLayouts == SetLayoutsOf(set_layouts)

Called == pipeline_layout.tag # "None"

Returned == pipeline_layout.tag = "Ok"

PL == pipeline_layout.value

VisibleTo(layout, i) == StageFlag(StageOrder[i]) \in layout.stages

\* the largest range.end / 4 declared for stage i, 0 without any
DeclaredWords(i) ==
    LET ws == {push_constant_ranges[k].range.end \div 4 :
                 k \in {j \in DOMAIN push_constant_ranges :
                          StageFlag(StageOrder[i]) \in push_constant_ranges[j].flags}}
    IN IF ws = {} THEN 0 ELSE CHOOSE w \in ws : \A v \in ws : v <= w

HasPushConstants(i) == DeclaredWords(i) # 0

\* category slots of stage i taken by the entries at positions < p of a layout list
TakenByEntries(layouts, i, cat, p) ==
    Cardinality({k \in 1..(p - 1) : VisibleTo(layouts[k], i) /\ cat \in layouts[k].content})

\* category slots of stage i taken by a whole set
TakenBySet(set_layout, i, cat) ==
    IF set_layout.kind = "Emulated"
    THEN TakenByEntries(set_layout.layouts, i, cat, Len(set_layout.layouts) + 1)
    ELSE IF cat = "BUFFER" /\ StageFlag(StageOrder[i]) \in set_layout.stage_flags
         THEN 1 ELSE 0

\* category slots of stage i taken by the sets of index < n
RECURSIVE TakenBySets(_, _, _)
TakenBySets(i, cat, n) ==
    IF n = 0 THEN 0
    ELSE TakenBySets(i, cat, n - 1) + TakenBySet(InputLayouts[n], i, cat)

FirstSlot(i, cat) == IF cat = "BUFFER" /\ HasPushConstants(i) THEN 1 ELSE 0

\* some SIZED_BUFFER entry of an Emulated set is visible to stage i
HasSizedBinding(i) ==
    \E n \in DOMAIN InputLayouts :
        /\ InputLayouts[n].kind = "Emulated"
        /\ \E k \in DOMAIN InputLayouts[n].layouts :
            /\ "SIZED_BUFFER" \in InputLayouts[n].layouts[k].content
            /\ VisibleTo(InputLayouts[n].layouts[k], i)

\* the final counter of stage i in a category, counting the push constant
\* slot and the sizes buffer slot as buffers
FinalCount(i, cat) ==
    FirstSlot(i, cat) + TakenBySets(i, cat, Len(InputLayouts))
        + (IF cat = "BUFFER" /\ HasSizedBinding(i) THEN 1 ELSE 0)

LimitOf(cat) ==
    CASE cat = "BUFFER" -> max_buffers_per_stage
      [] cat = "TEXTURE" -> max_textures_per_stage
      [] cat = "SAMPLER" -> max_samplers_per_stage

CounterOf(counters, cat) ==
    CASE cat = "BUFFER" -> counters.buffers
      [] cat = "TEXTURE" -> counters.textures
      [] cat = "SAMPLER" -> counters.samplers

WithinLimits == \A i \in StageIndices, cat \in Categories : FinalCount(i, cat) <= LimitOf(cat)

(***************************************************************************)
(* C1: create_pipeline_layout returns Ok only if every stage's final       *)
(* buffer, texture and sampler counters (push constant and sizes buffer    *)
(* slots counted as buffers) are within the device's per-stage limits, and *)
(* the counters it returns are those counts; if any stage exceeds any      *)
(* limit it returns Err(OutOfMemory::Host) and no layout.                  *)
(***************************************************************************)
C1_LimitsRespected ==
    Called =>
        /\ Returned <=> WithinLimits
        /\ Returned =>
            \A i \in StageIndices, cat \in Categories :
                /\ CounterOf(PL.total[i], cat) = FinalCount(i, cat)
                /\ CounterOf(PL.total[i], cat) <= LimitOf(cat)
        /\ ~WithinLimits => pipeline_layout = [tag |-> "Err", error |-> "OutOfMemory::Host"]

\* a call rejected because only the sampler limit of some stage is exceeded
C1_Witness ==
    /\ pipeline_layout.tag = "Err"
    /\ \E i \in StageIndices : FinalCount(i, "SAMPLER") > max_samplers_per_stage
    /\ \A i \in StageIndices :
        /\ FinalCount(i, "BUFFER") <= max_buffers_per_stage
        /\ FinalCount(i, "TEXTURE") <= max_textures_per_stage

(***************************************************************************)
(* Slots of a returned pipeline layout.                                    *)
(***************************************************************************)
\* binding map sources of stage i
Sources(i) == {src \in DOMAIN PL.binding_map : src.stage = StageOrder[i]}

\* (stage, set) keys of the ArgumentBuffer sets of stage i
ArgumentSets(i) == {k \in DOMAIN PL.argument_buffer_bindings : k[1] = StageOrder[i]}

\* the slot a binding map target holds in a category, as an option
SlotOf(target, cat) ==
    CASE cat = "BUFFER" -> target.buffer
      [] cat = "TEXTURE" -> target.texture
      [] cat = "SAMPLER" ->
            IF IsSome(target.sampler) /\ Unwrap(target.sampler).kind = "Resource"
            THEN Some(Unwrap(target.sampler).index)
            ELSE None

\* buffer slots of stage i that come from descriptor sets
DescriptorBufferSlots(i) ==
    {Unwrap(PL.binding_map[src].buffer) :
        src \in {x \in Sources(i) : IsSome(PL.binding_map[x].buffer)}}
    \cup {PL.argument_buffer_bindings[k] : k \in ArgumentSets(i)}

PushConstantSlot(i) == PL.per_stage_map[i].push_constant_buffer

SizesSlot(i) == PL.per_stage_map[i].sizes_buffer

(***************************************************************************)
(* C2: in a returned pipeline layout, within each stage and category no    *)
(* slot is assigned twice: the binding map slots of distinct sources, the  *)
(* buffer slots of the ArgumentBuffer sets, the push constant slot and the *)
(* sizes buffer slot are pairwise distinct.                                *)
(***************************************************************************)
C2_SlotsDistinct ==
    Returned =>
        \A i \in StageIndices :
            /\ \A cat \in Categories : \A s1, s2 \in Sources(i) :
                (/\ s1 # s2
                 /\ IsSome(SlotOf(PL.binding_map[s1], cat))
                 /\ IsSome(SlotOf(PL.binding_map[s2], cat)))
                => SlotOf(PL.binding_map[s1], cat) # SlotOf(PL.binding_map[s2], cat)
            /\ \A k1, k2 \in ArgumentSets(i) :
                k1 # k2 => PL.argument_buffer_bindings[k1] # PL.argument_buffer_bindings[k2]
            /\ \A src \in Sources(i), k \in ArgumentSets(i) :
                PL.binding_map[src].buffer # Some(PL.argument_buffer_bindings[k])
            /\ IsSome(PushConstantSlot(i)) =>
                /\ Unwrap(PushConstantSlot(i)) \notin DescriptorBufferSlots(i)
                /\ PushConstantSlot(i) # SizesSlot(i)
            /\ IsSome(SizesSlot(i)) =>
                Unwrap(SizesSlot(i)) \notin DescriptorBufferSlots(i)

\* a stage holding a push constant slot, a sizes buffer slot and the buffer
\* slots of two descriptor bindings
C2_Witness ==
    /\ Returned
    /\ \E i \in StageIndices :
        /\ IsSome(PushConstantSlot(i))
        /\ IsSome(SizesSlot(i))
        /\ Cardinality(DescriptorBufferSlots(i)) >= 2

(***************************************************************************)
(* C3 (as claimed): for every stage the recorded push constant word count  *)
(* is the maximum of range.end / 4 over the ranges of the stage, rounded   *)
(* up to the next multiple of 4 words, for every maximum, 1, 2 and 3       *)
(* included; total_push_constants is the maximum over the stages.          *)
(***************************************************************************)
RoundUp4(w) == ((w + 3) \div 4) * 4

MaxOver3(f) == MaxOf(MaxOf(f[1], f[2]), f[3])

RecordedWords(i) ==
    IF IsSome(PL.push_constants[i]) THEN Unwrap(PL.push_constants[i]).count ELSE 0

C3_AlwaysRounded ==
    Returned =>
        /\ \A i \in StageIndices : RecordedWords(i) = RoundUp4(DeclaredWords(i))
        /\ PL.total_push_constants =
                MaxOver3([i \in StageIndices |-> RoundUp4(DeclaredWords(i))])

(***************************************************************************)
(* C3 (amended): the recorded count is the maximum of range.end / 4 over   *)
(* the ranges of the stage, rounded up to the next multiple of 4 words     *)
(* only when that maximum exceeds 3 words; maxima of 1, 2 and 3 words are  *)
(* recorded as they are. total_push_constants is the maximum over stages.  *)
(***************************************************************************)
RoundedWords(w) == IF w > 3 THEN RoundUp4(w) ELSE w

C3_RoundedAbove3 ==
    Returned =>
        /\ \A i \in StageIndices : RecordedWords(i) = RoundedWords(DeclaredWords(i))
        /\ PL.total_push_constants =
                MaxOver3([i \in StageIndices |-> RoundedWords(DeclaredWords(i))])

\* one stage whose maximum of 3 words is kept, another whose 5 words become 8
C3_Witness ==
    /\ Returned
    /\ \E i, j \in StageIndices :
        /\ DeclaredWords(i) = 3 /\ RecordedWords(i) = 3
        /\ DeclaredWords(j) = 5 /\ RecordedWords(j) = 8
    /\ Len(push_constant_ranges) = 2

(***************************************************************************)
(* C4: a stage has a push constant slot iff its rounded push constant word *)
(* count is nonzero; that slot is buffer index 0 of the stage and every    *)
(* buffer slot that comes from a descriptor set (binding map or            *)
(* ArgumentBuffer set) is >= 1; without push constants the descriptor      *)
(* buffer slots of the stage start at 0.                                   *)
(***************************************************************************)
C4_PushConstantsFirst ==
    Returned =>
        \A i \in StageIndices :
            /\ IsSome(PushConstantSlot(i)) <=> RoundedWords(DeclaredWords(i)) # 0
            /\ IsSome(PL.push_constants[i]) <=> IsSome(PushConstantSlot(i))
            /\ IsSome(PushConstantSlot(i)) =>
                /\ PushConstantSlot(i) = Some(0)
                /\ Unwrap(PL.push_constants[i]).buffer_index = 0
                /\ \A b \in DescriptorBufferSlots(i) : b >= 1
            /\ (~IsSome(PushConstantSlot(i)) /\ DescriptorBufferSlots(i) # {}) =>
                0 \in DescriptorBufferSlots(i)

\* one stage with push constants and descriptor buffers, another stage with
\* descriptor buffers only
C4_Witness ==
    /\ Returned
    /\ \E i, j \in StageIndices :
        /\ IsSome(PushConstantSlot(i)) /\ 1 \in DescriptorBufferSlots(i)
        /\ ~IsSome(PushConstantSlot(j)) /\ 0 \in DescriptorBufferSlots(j)

(***************************************************************************)
(* Sequential allocation.                                                  *)
(***************************************************************************)
\* the next free slot of stage i in a category when the entry at position p of
\* the set at position n is reached
SequentialSlot(i, cat, n, p) ==
    FirstSlot(i, cat) + TakenBySets(i, cat, n - 1)
        + TakenByEntries(InputLayouts[n].layouts, i, cat, p)

SourceOf(i, n, layout) ==
    [stage |-> StageOrder[i], group |-> n - 1, binding |-> layout.binding]

\* the target the entry at position p of set n must be given in stage i
SequentialTarget(i, n, p, target) ==
    LET layout == InputLayouts[n].layouts[p]
    IN /\ target.buffer = (IF "BUFFER" \in layout.content
                           THEN Some(SequentialSlot(i, "BUFFER", n, p)) ELSE None)
       /\ target.texture = (IF "TEXTURE" \in layout.content
                            THEN Some(SequentialSlot(i, "TEXTURE", n, p)) ELSE None)
       /\ IF "IMMUTABLE_SAMPLER" \in layout.content
          THEN IsSome(target.sampler) /\ Unwrap(target.sampler).kind = "Inline"
          ELSE SlotOf(target, "SAMPLER") =
                    (IF "SAMPLER" \in layout.content
                     THEN Some(SequentialSlot(i, "SAMPLER", n, p)) ELSE None)

\* the declared bindings of the three-set example
ExampleBindings ==
    <<Slb(0, "UniformBuffer", 1, {"VERTEX", "FRAGMENT"}, FALSE),
      Slb(1, "SampledImage", 1, {"FRAGMENT"}, FALSE)>>

ExampleInputs ==
    /\ Called
    /\ ~argument_buffers
    /\ Len(set_layouts) = 3
    /\ \A n \in DOMAIN set_layouts : set_layouts[n].declared = ExampleBindings
    /\ push_constant_ranges = <<PcRange({"VERTEX"}, 64)>>

NoTarget == [buffer |-> None, texture |-> None, sampler |-> None, mutable |-> FALSE]

ExampleLayout ==
    /\ Returned
    /\ PushConstantSlot(1) = Some(0)
    /\ PushConstantSlot(2) = None
    /\ PL.binding_map =
        [src \in {[stage |-> st, group |-> g, binding |-> b] :
                    st \in {"Vertex", "Fragment"}, g \in 0..2, b \in {0, 1}}
                 \ {[stage |-> "Vertex", group |-> g, binding |-> 1] : g \in 0..2} |->
            IF src.binding = 0
            THEN [NoTarget EXCEPT !.buffer =
                    Some(IF src.stage = "Vertex" THEN src.group + 1 ELSE src.group)]
            ELSE [NoTarget EXCEPT !.texture = Some(src.group)]]
    /\ PL.total[1] = [buffers |-> 4, textures |-> 0, samplers |-> 0]
    /\ PL.total[2] = [buffers |-> 3, textures |-> 3, samplers |-> 0]

(***************************************************************************)
(* C5: slots are allocated sequentially per stage and category: the slot   *)
(* recorded for an Emulated binding in stage S and category C is (1 if C   *)
(* is buffer and S has push constants, else 0) plus the category-C slots   *)
(* taken in S by the sets of lower index and by the entries that precede   *)
(* it in its own set's sorted list. The three-set example of the spec      *)
(* yields vertex buffers pc@0, 1, 2, 3, fragment buffers 0, 1, 2, fragment *)
(* textures 0, 1, 2 and no vertex texture or sampler slot.                 *)
(***************************************************************************)
C5_SequentialSlots ==
    /\ Returned =>
        \A n \in DOMAIN InputLayouts :
            InputLayouts[n].kind = "Emulated" =>
                \A p \in DOMAIN InputLayouts[n].layouts, i \in StageIndices :
                    LET layout == InputLayouts[n].layouts[p]
                    IN (layout.array_index = 0 /\ VisibleTo(layout, i)) =>
                        /\ SourceOf(i, n, layout) \in DOMAIN PL.binding_map
                        /\ SequentialTarget(i, n, p, PL.binding_map[SourceOf(i, n, layout)])
    /\ ExampleInputs => ExampleLayout

\* the three-set example has been compiled
C5_Witness == ExampleInputs /\ Returned

(***************************************************************************)
(* C6: the binding map has an entry for (stage, set index, binding) iff    *)
(* the set is Emulated and its layout list has an entry for that binding   *)
(* with array index 0 whose stage mask includes the stage; array elements  *)
(* of index > 0 get no entry, and the array elements of a binding that are *)
(* visible to the stage take consecutive slots from the recorded slot on.  *)
(***************************************************************************)
FirstElementSources ==
    UNION {
        IF InputLayouts[n].kind = "Emulated"
        THEN {SourceOf(i, n, InputLayouts[n].layouts[p]) :
                <<i, p>> \in {x \in StageIndices \X DOMAIN InputLayouts[n].layouts :
                    /\ InputLayouts[n].layouts[x[2]].array_index = 0
                    /\ VisibleTo(InputLayouts[n].layouts[x[2]], x[1])}}
        ELSE {} : n \in DOMAIN InputLayouts}

C6_FirstElementOnly ==
    Returned =>
        /\ DOMAIN PL.binding_map = FirstElementSources
        /\ \A n \in DOMAIN InputLayouts :
            InputLayouts[n].kind = "Emulated" =>
                \A p \in DOMAIN InputLayouts[n].layouts, i \in StageIndices :
                    LET layout == InputLayouts[n].layouts[p]
                        target == PL.binding_map[SourceOf(i, n, layout)]
                    IN VisibleTo(layout, i) =>
                        \A cat \in Categories :
                            (cat \in layout.content /\ IsSome(SlotOf(target, cat))) =>
                                SequentialSlot(i, cat, n, p) =
                                    Unwrap(SlotOf(target, cat)) + layout.array_index

\* a returned layout with a two-element array visible to some stage
C6_Witness ==
    /\ Returned
    /\ \E n \in DOMAIN InputLayouts :
        /\ InputLayouts[n].kind = "Emulated"
        /\ \E p \in DOMAIN InputLayouts[n].layouts, i \in StageIndices :
            /\ InputLayouts[n].layouts[p].array_index = 1
            /\ VisibleTo(InputLayouts[n].layouts[p], i)
            /\ "SAMPLER" \in InputLayouts[n].layouts[p].content
            /\ SourceOf(i, n, InputLayouts[n].layouts[p]) \in DOMAIN PL.binding_map

(***************************************************************************)
(* C7: in a returned pipeline layout a stage has a sizes buffer slot iff   *)
(* some SIZED_BUFFER entry of an Emulated set is visible to the stage, and *)
(* that slot is the highest buffer slot of the stage: its final buffer     *)
(* count minus 1.                                                          *)
(***************************************************************************)
C7_SizesBufferLast ==
    Returned =>
        \A i \in StageIndices :
            /\ IsSome(SizesSlot(i)) <=> HasSizedBinding(i)
            /\ IsSome(SizesSlot(i)) => Unwrap(SizesSlot(i)) = PL.total[i].buffers - 1

\* number of SIZED_BUFFER entries visible to stage i
SizedEntries(i) ==
    Cardinality({x \in UNION {{<<n, p>> : p \in DOMAIN InputLayouts[n].layouts} :
                        n \in {m \in DOMAIN InputLayouts : InputLayouts[m].kind = "Emulated"}} :
        /\ "SIZED_BUFFER" \in InputLayouts[x[1]].layouts[x[2]].content
        /\ VisibleTo(InputLayouts[x[1]].layouts[x[2]], i)})

\* a stage with several sized entries and a sizes buffer above other buffers,
\* next to a stage without sized entries
C7_Witness ==
    /\ Returned
    /\ \E i, j \in StageIndices :
        /\ SizedEntries(i) >= 2
        /\ IsSome(SizesSlot(i)) /\ Unwrap(SizesSlot(i)) >= 2
        /\ SizedEntries(j) = 0 /\ SizesSlot(j) = None /\ PL.total[j].buffers > 0

(***************************************************************************)
(* C8: an ArgumentBuffer set processed by create_pipeline_layout raises    *)
(* the buffer counter of each stage in its stage mask by exactly 1, leaves *)
(* the counters of the other stages and all texture and sampler counters   *)
(* unchanged and adds no entry to the binding map.                         *)
(***************************************************************************)
C8_ArgumentBufferFrame ==
    Called =>
        \A n \in DOMAIN InputLayouts :
            InputLayouts[n].kind = "ArgumentBuffer" =>
                LET before == pl_trace[n]
                    after == pl_trace[n + 1]
                IN /\ after.sources = before.sources
                   /\ \A i \in StageIndices :
                        /\ after.counters[i].buffers = before.counters[i].buffers
                            + (IF StageFlag(StageOrder[i]) \in InputLayouts[n].stage_flags
                               THEN 1 ELSE 0)
                        /\ after.counters[i].textures = before.counters[i].textures
                        /\ after.counters[i].samplers = before.counters[i].samplers

\* an ArgumentBuffer set that takes part in some stages and not in others
C8_Witness ==
    /\ Called
    /\ \E n \in DOMAIN InputLayouts :
        /\ InputLayouts[n].kind = "ArgumentBuffer"
        /\ InputLayouts[n].stage_flags \notin {{}, ShaderStageFlags}
        /\ n > 1
        /\ pl_trace[n + 1].counters # pl_trace[n].counters

(***************************************************************************)
(* Descriptor set layouts.                                                 *)
(***************************************************************************)
\* the indices of the live Emulated descriptor set layouts
EmulatedLayouts ==
    {n \in DOMAIN set_layouts : set_layouts[n].layout.kind = "Emulated"}

\* the declared binding covers the (binding, array index) of the entry
Covers(slb, layout) ==
    slb.binding = layout.binding /\ layout.array_index < slb.count

KeyLess(a, b) ==
    \/ a.binding < b.binding
    \/ a.binding = b.binding /\ a.array_index < b.array_index

\* declarations of set n that cover the entry and have its content
SameContentDeclarations(n, layout) ==
    {k \in DOMAIN set_layouts[n].declared :
        /\ Covers(set_layouts[n].declared[k], layout)
        /\ SlbContent(set_layouts[n].declared[k]) = layout.content}

\* two declarations of set n cover one (binding, array index) with differing content
DifferingContent(n) ==
    \E j, k \in DOMAIN set_layouts[n].declared :
        LET a == set_layouts[n].declared[j]
            b == set_layouts[n].declared[k]
        IN /\ a.binding = b.binding
           /\ a.count > 0 /\ b.count > 0
           /\ SlbContent(a) # SlbContent(b)

(***************************************************************************)
(* C9: the layout list returned by create_descriptor_set_layout (Emulated) *)
(* is strictly increasing by (binding, array index), and the stage mask of *)
(* each entry is the union of the stage masks of the declared bindings     *)
(* that cover its (binding, array index) with the same content.            *)
(***************************************************************************)
C9_SortedAndUnioned ==
    \A n \in EmulatedLayouts :
        LET layouts == set_layouts[n].layout.layouts
        IN /\ \A p \in 1..(Len(layouts) - 1) : KeyLess(layouts[p], layouts[p + 1])
           /\ \A p \in DOMAIN layouts :
                layouts[p].stages =
                    UNION {set_layouts[n].declared[k].stage_flags :
                                k \in SameContentDeclarations(n, layouts[p])}

(***************************************************************************)
(* C10: when two declared bindings cover the same (binding, array index)   *)
(* with differing content, create_descriptor_set_layout aborts or fails:   *)
(* no returned layout stems from such declarations.                        *)
(***************************************************************************)
C10_NoSilentMerge ==
    \A n \in EmulatedLayouts : ~DifferingContent(n)

(***************************************************************************)
(* Memory heaps, buffers and images.                                       *)
(***************************************************************************)
MaxMemories == 2        \* n::Memory objects allocated
MaxBuffers == 1         \* n::Buffer objects created
MaxImages == 1          \* n::Image objects created
MaxRanges == 2          \* (memory, segment) pairs passed to flush and invalidate

\* bitflags MemoryTypes
PRIVATE == 2 ^ 0
SHARED == 2 ^ 1
MANAGED_UPLOAD == 2 ^ 2

\* PhysicalDevice::new: the memory type table, indexed from 0
MemoryTypeTable(os_is_mac) ==
    IF os_is_mac
    THEN <<{"DEVICE_LOCAL"}, {"CPU_VISIBLE", "COHERENT"}, {"DEVICE_LOCAL", "CPU_VISIBLE"}>>
    ELSE <<{"DEVICE_LOCAL"}, {"CPU_VISIBLE", "COHERENT"}>>

\* self.memory_types[memory_type.0].properties
PropertiesOf(memory_type) == memory_types[memory_type + 1]

\* MemoryTypes::describe
describe(index) ==
    CASE 2 ^ index = PRIVATE -> [storage |-> "Private", cache |-> "DefaultCache"]
      [] 2 ^ index = SHARED -> [storage |-> "Shared", cache |-> "DefaultCache"]
      [] 2 ^ index = MANAGED_UPLOAD -> [storage |-> "Managed", cache |-> "WriteCombined"]

\* conv::resource_options_from_storage_and_cache
ResourceOptions(storage, cache) == [storage |-> storage, cache |-> cache]

\* Device::allocate_memory: the heap; `raw` is the native buffer the driver
\* hands out next
allocate_memory(memory_type, size, raw) ==
    LET d == describe(memory_type)
    IN [heap |-> IF d.storage = "Private"
                 THEN [kind |-> "Private"]
                 ELSE [kind |-> "Public", memory_type |-> memory_type, cpu_buffer |-> raw],
        size |-> size]

\* memory::Segment
Segment(offset, size) == [offset |-> offset, size |-> size]

\* n::Memory::resolve
resolve(memory, segment) ==
    [start |-> segment.offset,
     end |-> IF IsSome(segment.size)
             THEN segment.offset + Unwrap(segment.size) ELSE memory.size]

\* Device::create_buffer
create_buffer(size) == [tag |-> "Unbound", size |-> size, name |-> ""]

\* mutant: the range of a buffer in a Public heap ends at the declared size
bind_buffer_memory_end_at_size(memory, offset, buffer, raw) ==
    IF buffer.tag # "Unbound"
    THEN [tag |-> "Panic"]
    ELSE [tag |-> "Ok",
          buffer |-> [tag |-> "Bound",
                      raw |-> IF memory.heap.kind = "Public"
                              THEN memory.heap.cpu_buffer ELSE raw,
                      options |-> ResourceOptions("Private", "DefaultCache"),
                      range |-> [start |-> IF memory.heap.kind = "Public" THEN offset ELSE 0,
                                 end |-> buffer.size]],
          created |-> IF memory.heap.kind = "Public" THEN 0 ELSE 1]

\* Device::bind_buffer_memory: tag "Panic", or "Ok" with the buffer afterwards
\* and the number of native buffers the driver created
bind_buffer_memory(memory, offset, buffer, raw) ==
    IF buffer.tag # "Unbound"
    THEN [tag |-> "Panic"]
    ELSE IF memory.heap.kind = "Public"
         THEN LET d == describe(memory.heap.memory_type)
              IN [tag |-> "Ok",
                  buffer |-> [tag |-> "Bound",
                              raw |-> memory.heap.cpu_buffer,
                              options |-> ResourceOptions(d.storage, d.cache),
                              range |-> [start |-> offset, end |-> offset + buffer.size]],
                  created |-> 0]
         ELSE [tag |-> "Ok",
               buffer |-> [tag |-> "Bound",
                           raw |-> raw,
                           options |-> ResourceOptions("Private", "DefaultCache"),
                           range |-> [start |-> 0, end |-> buffer.size]],
               created |-> 1]

\* Device::set_buffer_name: only an Unbound buffer keeps the name itself
set_buffer_name(buffer, name) ==
    IF buffer.tag = "Unbound" THEN [buffer EXCEPT !.name = name] ELSE buffer

\* Device::create_image: mip_sizes holds one byte size per mip level
create_image(mip_sizes) ==
    [like |-> [tag |-> "Unbound", mip_sizes |-> mip_sizes, name |-> ""],
     mip_levels |-> Len(mip_sizes)]

\* Device::bind_image_memory
bind_image_memory(memory, offset, image, raw) ==
    IF image.like.tag # "Unbound"
    THEN [tag |-> "Panic"]
    ELSE IF memory.heap.kind = "Public"
         THEN IF Len(image.like.mip_sizes) # 1
              THEN [tag |-> "Panic"]
              ELSE [tag |-> "Ok",
                    image |-> [image EXCEPT !.like =
                        [tag |-> "Buffer",
                         buffer |-> [tag |-> "Bound",
                                     raw |-> memory.heap.cpu_buffer,
                                     options |-> ResourceOptions("Shared", "DefaultCache"),
                                     range |-> [start |-> offset,
                                                end |-> offset + image.like.mip_sizes[1]]]]],
                    created |-> 0]
         ELSE [tag |-> "Ok",
               image |-> [image EXCEPT !.like = [tag |-> "Texture", raw |-> raw]],
               created |-> 1]

\* Device::set_image_name
set_image_name(image, name) ==
    IF image.like.tag = "Unbound"
    THEN [image EXCEPT !.like.name = name]
    ELSE image

(***************************************************************************)
(* The resource lifecycle as a state machine.                              *)
(***************************************************************************)
\* inputs of the resource calls
MemorySizes == {8}
BufferSizes == {4, 8}
BindOffsets == {0, 4}
Names == {"label"}
MipSizes == {<<8>>, <<8, 4>>}

\* a destroyed object: the caller gave the value up
Destroyed == [tag |-> "Destroyed"]

\* the device is open and no call has panicked
Running == aborted = "" /\ memory_types # <<>>

\* PhysicalDevice::new
PhysicalDeviceNew(os_is_mac) ==
    /\ aborted = ""
    /\ memory_types = <<>>
    /\ memory_types' = MemoryTypeTable(os_is_mac)
    /\ UNCHANGED <<outside_memory, aborted, memories, buffers, images, next_raw,
                   command_buffers, memory_call>>

\* Device::allocate_memory
AllocateMemory(memory_type, size) ==
    /\ Running
    /\ Len(memories) < MaxMemories
    /\ LET memory == allocate_memory(memory_type, size, next_raw)
       IN /\ memories' = Append(memories, memory)
          /\ next_raw' = IF memory.heap.kind = "Public" THEN next_raw + 1 ELSE next_raw
    /\ memory_call' = [op |-> "allocate_memory", memory |-> Len(memories) + 1]
    /\ UNCHANGED <<outside_memory, aborted, memory_types, buffers, images, command_buffers>>

\* Device::create_buffer
CreateBuffer(size) ==
    /\ Running
    /\ Len(buffers) < MaxBuffers
    /\ buffers' = Append(buffers, create_buffer(size))
    /\ memory_call' = [op |-> "create_buffer", buffer |-> Len(buffers) + 1]
    /\ UNCHANGED <<outside_memory, aborted, memory_types, memories, images, next_raw,
                   command_buffers>>

\* Device::bind_buffer_memory
BindBufferMemory(m, offset, b) ==
    /\ Running
    /\ buffers[b] # Destroyed
    /\ LET r == bind_buffer_memory(memories[m], offset, buffers[b], next_raw)
       IN /\ memory_call' = [op |-> "bind_buffer_memory", memory |-> m, offset |-> offset,
                             buffer |-> b, result |-> r.tag]
          /\ IF r.tag = "Panic"
             THEN /\ aborted' = "bind_buffer_memory"
                  /\ UNCHANGED <<buffers, next_raw>>
             ELSE /\ buffers' = [buffers EXCEPT ![b] = r.buffer]
                  /\ next_raw' = next_raw + r.created
                  /\ UNCHANGED aborted
    /\ UNCHANGED <<outside_memory, memory_types, memories, images, command_buffers>>

\* Device::set_buffer_name
SetBufferName(b, name) ==
    /\ Running
    /\ buffers[b] # Destroyed
    /\ buffers' = [buffers EXCEPT ![b] = set_buffer_name(@, name)]
    /\ memory_call' = [op |-> "set_buffer_name", buffer |-> b]
    /\ UNCHANGED <<outside_memory, aborted, memory_types, memories, images, next_raw,
                   command_buffers>>

\* Device::destroy_buffer takes the buffer by value
DestroyBuffer(b) ==
    /\ Running
    /\ buffers[b] # Destroyed
    /\ buffers' = [buffers EXCEPT ![b] = Destroyed]
    /\ memory_call' = [op |-> "destroy_buffer", buffer |-> b]
    /\ UNCHANGED <<outside_memory, aborted, memory_types, memories, images, next_raw,
                   command_buffers>>

\* Device::create_image
CreateImage(mip_sizes) ==
    /\ Running
    /\ Len(images) < MaxImages
    /\ images' = Append(images, create_image(mip_sizes))
    /\ memory_call' = [op |-> "create_image", image |-> Len(images) + 1]
    /\ UNCHANGED <<outside_memory, aborted, memory_types, memories, buffers, next_raw,
                   command_buffers>>

\* Device::bind_image_memory
BindImageMemory(m, offset, i) ==
    /\ Running
    /\ images[i] # Destroyed
    /\ LET r == bind_image_memory(memories[m], offset, images[i], next_raw)
       IN /\ memory_call' = [op |-> "bind_image_memory", memory |-> m, offset |-> offset,
                             image |-> i, result |-> r.tag]
          /\ IF r.tag = "Panic"
             THEN /\ aborted' = "bind_image_memory"
                  /\ UNCHANGED <<images, next_raw>>
             ELSE /\ images' = [images EXCEPT ![i] = r.image]
                  /\ next_raw' = next_raw + r.created
                  /\ UNCHANGED aborted
    /\ UNCHANGED <<outside_memory, memory_types, memories, buffers, command_buffers>>

\* Device::set_image_name
SetImageName(i, name) ==
    /\ Running
    /\ images[i] # Destroyed
    /\ images' = [images EXCEPT ![i] = set_image_name(@, name)]
    /\ memory_call' = [op |-> "set_image_name", image |-> i]
    /\ UNCHANGED <<outside_memory, aborted, memory_types, memories, buffers, next_raw,
                   command_buffers>>

\* Device::destroy_image takes the image by value
DestroyImage(i) ==
    /\ Running
    /\ images[i] # Destroyed
    /\ images' = [images EXCEPT ![i] = Destroyed]
    /\ memory_call' = [op |-> "destroy_image", image |-> i]
    /\ UNCHANGED <<outside_memory, aborted, memory_types, memories, buffers, next_raw,
                   command_buffers>>

\* the memory types of the device's table
MemoryTypeIds == 0..(Len(memory_types) - 1)

NextResource ==
    \/ \E os_is_mac \in BOOLEAN : PhysicalDeviceNew(os_is_mac)
    \/ \E t \in MemoryTypeIds, size \in MemorySizes : AllocateMemory(t, size)
    \/ \E size \in BufferSizes : CreateBuffer(size)
    \/ \E m \in DOMAIN memories, offset \in BindOffsets, b \in DOMAIN buffers :
            BindBufferMemory(m, offset, b)
    \/ \E b \in DOMAIN buffers, name \in Names : SetBufferName(b, name)
    \/ \E b \in DOMAIN buffers : DestroyBuffer(b)
    \/ \E mip_sizes \in MipSizes : CreateImage(mip_sizes)
    \/ \E m \in DOMAIN memories, offset \in BindOffsets, i \in DOMAIN images :
            BindImageMemory(m, offset, i)
    \/ \E i \in DOMAIN images, name \in Names : SetImageName(i, name)
    \/ \E i \in DOMAIN images : DestroyImage(i)

SpecResource == InitDevice /\ [][NextResource]_vars

\* the step is a bind_buffer_memory call on buffer b
BindsBuffer(b) ==
    /\ memory_call'.op = "bind_buffer_memory"
    /\ memory_call'.buffer = b
    /\ <<buffers, aborted>>' # <<buffers, aborted>>

\* the step is a bind_image_memory call on image i
BindsImage(i) ==
    /\ memory_call'.op = "bind_image_memory"
    /\ memory_call'.image = i
    /\ <<images, aborted>>' # <<images, aborted>>

RangeLen(range) == range.end - range.start

BufferLifecycle(b) ==
    /\ buffers[b].tag = "Bound" => buffers'[b] \in {buffers[b], Destroyed}
    /\ BindsBuffer(b) =>
        IF buffers[b].tag = "Unbound"
        THEN /\ aborted' = ""
             /\ buffers'[b].tag = "Bound"
             /\ RangeLen(buffers'[b].range) = buffers[b].size
        ELSE /\ aborted' # ""
             /\ buffers'[b] = buffers[b]

\* an Unbound image with several mip levels cannot be bound to a Public heap:
\* assert_eq!(mip_sizes.len(), 1) aborts the call
ImageLifecycle(i) ==
    /\ images[i].like.tag \in {"Texture", "Buffer"} => images'[i] \in {images[i], Destroyed}
    /\ BindsImage(i) =>
        IF images[i].like.tag = "Unbound" /\ aborted' = ""
        THEN /\ images'[i].like.tag \in {"Texture", "Buffer"}
             /\ images'[i].like.tag = "Buffer" =>
                    RangeLen(images'[i].like.buffer.range) = images[i].like.mip_sizes[1]
        ELSE /\ aborted' # ""
             /\ images'[i] = images[i]
             /\ images[i].like.tag = "Unbound" =>
                    /\ memories[memory_call'.memory].heap.kind = "Public"
                    /\ Len(images[i].like.mip_sizes) # 1

contents(cpu_buffer) == [allocation |-> cpu_buffer, address |-> 0]

\* <*mut u8>::offset
PtrOffset(ptr, count) == [ptr EXCEPT !.address = @ + count]

\* mutant: map_memory returns the base of the backing buffer
map_memory_base(memory, segment) ==
    IF memory.heap.kind = "Public"
    THEN [tag |-> "Ok", value |-> contents(memory.heap.cpu_buffer)]
    ELSE [tag |-> "Panic"]

\* Device::map_memory
map_memory(memory, segment) ==
    LET range == resolve(memory, segment)
    IN IF memory.heap.kind = "Public"
       THEN [tag |-> "Ok",
             value |-> PtrOffset(contents(memory.heap.cpu_buffer), range.start)]
       ELSE [tag |-> "Panic"]

\* mutant: every Public heap is flushed
NeedsSyncAlways(heap) == heap.kind = "Public"

\* the match guard of flush and invalidate:
\* n::MemoryHeap::Public(mt, _) if 1 << mt.0 != MemoryTypes::SHARED.bits()
NeedsSync(heap) ==
    heap.kind = "Public" /\ 2 ^ heap.memory_type # SHARED

\* cpu_buffer.did_modify_range(NSRange { location, length })
DidModifyRange(cpu_buffer, range) ==
    [buffer |-> cpu_buffer, location |-> range.start, length |-> range.end - range.start]

\* body of the loop of flush_mapped_memory_ranges, from the pair at position k
RECURSIVE FlushRanges(_, _, _)
FlushRanges(acc, iter, k) ==
    IF acc.panicked \/ k > Len(iter) THEN acc
    ELSE LET memory == memories[iter[k].memory]
             range == resolve(memory, iter[k].segment)
         IN FlushRanges(
                IF NeedsSync(memory.heap)
                THEN [acc EXCEPT !.notifications =
                        Append(@, DidModifyRange(memory.heap.cpu_buffer, range))]
                ELSE IF memory.heap.kind = "Public" THEN acc
                ELSE [acc EXCEPT !.panicked = TRUE],
                iter, k + 1)

\* Device::flush_mapped_memory_ranges
flush_mapped_memory_ranges(iter) ==
    FlushRanges([notifications |-> <<>>, panicked |-> FALSE], iter, 1)

\* body of the loop of invalidate_mapped_memory_ranges
RECURSIVE InvalidateRanges(_, _, _)
InvalidateRanges(acc, iter, k) ==
    IF acc.panicked \/ k > Len(iter) THEN acc
    ELSE LET memory == memories[iter[k].memory]
         IN InvalidateRanges(
                IF NeedsSync(memory.heap)
                THEN [acc EXCEPT !.num_syncs = @ + 1,
                                 !.commands = Append(@, memory.heap.cpu_buffer)]
                ELSE IF memory.heap.kind = "Public" THEN acc
                ELSE [acc EXCEPT !.panicked = TRUE],
                iter, k + 1)

\* the queue of cmd_buffer: self.invalidation_queue.spawn_temp()
InvalidationQueue == "invalidation_queue"

\* mutant: the command buffer is always committed
CommitsAlways(num_syncs) == num_syncs >= 0

\* if num_syncs != 0
Commits(num_syncs) == num_syncs # 0

\* inputs
Segments == {Segment(0, None), Segment(0, Some(4)), Segment(4, Some(4))}
MappedRanges == {[memory |-> m, segment |-> segment] :
                    m \in 1..MaxMemories, segment \in Segments}
MappedRangeSeqs == SeqsUpTo(MappedRanges, MaxRanges)

\* the calling thread is blocked in cmd_buffer.wait_until_completed()
Waiting ==
    memory_call.op = "invalidate_mapped_memory_ranges" /\ memory_call.state = "waiting"

\* Device::map_memory
MapMemory(m, segment) ==
    /\ Running /\ ~Waiting
    /\ LET r == map_memory(memories[m], segment)
       IN IF r.tag = "Panic"
          THEN /\ aborted' = "map_memory"
               /\ memory_call' = [op |-> "map_memory", memory |-> m, segment |-> segment,
                                  result |-> None]
          ELSE /\ memory_call' = [op |-> "map_memory", memory |-> m, segment |-> segment,
                                  result |-> Some(r.value)]
               /\ UNCHANGED aborted
    /\ UNCHANGED <<outside_memory, memory_types, memories, buffers, images, next_raw,
                   command_buffers>>

\* Device::unmap_memory
UnmapMemory(m) ==
    /\ Running /\ ~Waiting
    /\ memory_call' = [op |-> "unmap_memory", memory |-> m]
    /\ UNCHANGED <<outside_memory, aborted, memory_types, memories, buffers, images, next_raw,
                   command_buffers>>

\* Device::flush_mapped_memory_ranges
FlushMappedMemoryRanges(iter) ==
    /\ Running /\ ~Waiting
    /\ \A k \in DOMAIN iter : iter[k].memory \in DOMAIN memories
    /\ LET r == flush_mapped_memory_ranges(iter)
       IN /\ memory_call' = [op |-> "flush_mapped_memory_ranges", iter |-> iter,
                             notifications |-> r.notifications]
          /\ aborted' = IF r.panicked THEN "flush_mapped_memory_ranges" ELSE aborted
    /\ UNCHANGED <<outside_memory, memory_types, memories, buffers, images, next_raw,
                   command_buffers>>

\* Device::invalidate_mapped_memory_ranges up to cmd_buffer.commit()
InvalidateMappedMemoryRanges(iter) ==
    /\ Running /\ ~Waiting
    /\ \A k \in DOMAIN iter : iter[k].memory \in DOMAIN memories
    /\ LET r == InvalidateRanges([num_syncs |-> 0, commands |-> <<>>, panicked |-> FALSE],
                                 iter, 1)
       IN IF r.panicked
          THEN /\ aborted' = "invalidate_mapped_memory_ranges"
               /\ memory_call' = [op |-> "invalidate_mapped_memory_ranges", iter |-> iter,
                                  state |-> "panicked", command_buffer |-> 0]
               /\ UNCHANGED command_buffers
          ELSE IF Commits(r.num_syncs)
               THEN /\ command_buffers' = Append(command_buffers,
                            [queue |-> InvalidationQueue,
                             label |-> "invalidate_mapped_memory_ranges",
                             commands |-> r.commands,
                             completed |-> FALSE])
                    /\ memory_call' = [op |-> "invalidate_mapped_memory_ranges",
                                       iter |-> iter, state |-> "waiting",
                                       command_buffer |-> Len(command_buffers) + 1]
                    /\ UNCHANGED aborted
               ELSE /\ memory_call' = [op |-> "invalidate_mapped_memory_ranges",
                                       iter |-> iter, state |-> "returned",
                                       command_buffer |-> 0]
                    /\ UNCHANGED <<aborted, command_buffers>>
    /\ UNCHANGED <<outside_memory, memory_types, memories, buffers, images, next_raw>>

\* the GPU finishes a committed command buffer
CommandBufferCompleted(c) ==
    /\ aborted = ""
    /\ ~command_buffers[c].completed
    /\ command_buffers' = [command_buffers EXCEPT ![c].completed = TRUE]
    /\ UNCHANGED <<outside_memory, aborted, memory_types, memories, buffers, images, next_raw,
                   memory_call>>

\* cmd_buffer.wait_until_completed() returns, and with it the call
InvalidateReturns ==
    /\ aborted = ""
    /\ Waiting
    /\ command_buffers[memory_call.command_buffer].completed
    /\ memory_call' = [memory_call EXCEPT !.state = "returned"]
    /\ UNCHANGED <<outside_memory, aborted, memory_types, memories, buffers, images, next_raw,
                   command_buffers>>

MaxCommandBuffers == 1  \* command buffers committed

NextMapped ==
    \/ \E os_is_mac \in BOOLEAN : PhysicalDeviceNew(os_is_mac)
    \/ \E t \in MemoryTypeIds, size \in MemorySizes : AllocateMemory(t, size)
    \/ \E m \in DOMAIN memories, segment \in Segments : MapMemory(m, segment)
    \/ \E m \in DOMAIN memories : UnmapMemory(m)
    \/ Running /\ \E iter \in MappedRangeSeqs : FlushMappedMemoryRanges(iter)
    \/ Running /\ Len(command_buffers) < MaxCommandBuffers
        /\ \E iter \in MappedRangeSeqs : InvalidateMappedMemoryRanges(iter)
    \/ \E c \in DOMAIN command_buffers : CommandBufferCompleted(c)
    \/ InvalidateReturns

SpecMapped == InitDevice /\ [][NextMapped]_vars

\* the memory of a (memory, segment) pair
MemoryOf(pair) == memories[pair.memory]

\* the pair lies in Public memory whose type lacks COHERENT in the device's table
NonCoherent(pair) ==
    /\ MemoryOf(pair).heap.kind = "Public"
    /\ "COHERENT" \notin PropertiesOf(MemoryOf(pair).heap.memory_type)

AllPublic(iter) == \A k \in DOMAIN iter : MemoryOf(iter[k]).heap.kind = "Public"

(***************************************************************************)
(* C12: map_memory returns a pointer only for memory whose heap is Public  *)
(* (host-visible), and the pointer is the base of the backing buffer plus  *)
(* the start of the resolved segment; for Private memory it aborts, and    *)
(* flush and invalidate of a range in Private memory abort as well.        *)
(***************************************************************************)
C12_MapOnlyPublic ==
    /\ memory_call.op = "map_memory" =>
        LET memory == memories[memory_call.memory]
        IN IF memory.heap.kind = "Public"
           THEN /\ aborted = ""
                /\ "CPU_VISIBLE" \in PropertiesOf(memory.heap.memory_type)
                /\ memory_call.result =
                        Some([allocation |-> memory.heap.cpu_buffer,
                              address |-> contents(memory.heap.cpu_buffer).address
                                            + memory_call.segment.offset])
           ELSE /\ aborted = "map_memory"
                /\ memory_call.result = None
    /\ memory_call.op \in {"flush_mapped_memory_ranges", "invalidate_mapped_memory_ranges"} =>
        (~AllPublic(memory_call.iter) => aborted = memory_call.op)

\* a pointer into the middle of a Public memory has been returned
C12_Witness ==
    /\ memory_call.op = "map_memory"
    /\ IsSome(memory_call.result)
    /\ Unwrap(memory_call.result).address > 0
    /\ \E m \in DOMAIN memories : memories[m].heap.kind = "Private"

\* the notifications the pairs from position k on call for
RECURSIVE ExpectedNotifications(_, _)
ExpectedNotifications(iter, k) ==
    IF k > Len(iter) THEN <<>>
    ELSE LET range == resolve(MemoryOf(iter[k]), iter[k].segment)
         IN (IF NonCoherent(iter[k])
             THEN <<[buffer |-> MemoryOf(iter[k]).heap.cpu_buffer,
                     location |-> range.start,
                     length |-> range.end - range.start]>>
             ELSE <<>>) \o ExpectedNotifications(iter, k + 1)

(***************************************************************************)
(* C13: for the (memory, segment) pairs passed to                          *)
(* flush_mapped_memory_ranges with Public memory, exactly one cache-flush  *)
(* notification over exactly the resolved byte range is issued for each    *)
(* pair whose memory type lacks COHERENT in the device's table (3-type and *)
(* 2-type), and none for a pair whose type is COHERENT.                    *)
(***************************************************************************)
C13_FlushNonCoherent ==
    (memory_call.op = "flush_mapped_memory_ranges" /\ AllPublic(memory_call.iter)) =>
        /\ aborted = ""
        /\ memory_call.notifications = ExpectedNotifications(memory_call.iter, 1)

\* a flush over a coherent and a non-coherent range has notified once
C13_Witness ==
    /\ memory_call.op = "flush_mapped_memory_ranges"
    /\ Len(memory_call.iter) = 2
    /\ Len(memory_call.notifications) = 1
    /\ memory_call.notifications[1].location > 0
    /\ aborted = ""

\* the invalidate call got past its loop
Invalidating ==
    /\ memory_call.op = "invalidate_mapped_memory_ranges"
    /\ memory_call.state \in {"waiting", "returned"}

(***************************************************************************)
(* C14: invalidate_mapped_memory_ranges commits a synchronize command      *)
(* buffer iff some supplied range lies in non-coherent Public memory; it   *)
(* commits on the invalidation queue, never the primary queue, and returns *)
(* only after the command buffer has completed; when no range needs        *)
(* synchronization nothing is committed and the call does not block.       *)
(***************************************************************************)
C14_InvalidateSynchronizes ==
    /\ [](Invalidating =>
            /\ memory_call.command_buffer # 0
                <=> \E k \in DOMAIN memory_call.iter : NonCoherent(memory_call.iter[k])
            /\ memory_call.command_buffer # 0 =>
                /\ command_buffers[memory_call.command_buffer].queue = "invalidation_queue"
                /\ memory_call.state = "returned" =>
                        command_buffers[memory_call.command_buffer].completed
            /\ memory_call.command_buffer = 0 => memory_call.state = "returned")
    /\ [](\A c \in DOMAIN command_buffers : command_buffers[c].queue # "queue")
    /\ [][(/\ memory_call'.op = "invalidate_mapped_memory_ranges"
           /\ memory_call' # memory_call
           /\ memory_call'.command_buffer = 0)
            => command_buffers' = command_buffers]_vars

\* an invalidate over non-coherent memory has returned after its command
\* buffer completed
C14_Witness ==
    /\ Invalidating
    /\ memory_call.state = "returned"
    /\ memory_call.command_buffer # 0
    /\ command_buffers[memory_call.command_buffer].completed
    /\ \E k \in DOMAIN memory_call.iter : ~NonCoherent(memory_call.iter[k])

(***************************************************************************)
(* Fences.                                                                 *)
(***************************************************************************)
MaxFences == 2          \* n::Fence objects created
MaxSubmissions == 1     \* command buffers submitted with a fence
MaxTime == 3            \* milliseconds the clock runs

\* timeout_ns == !0
NoTimeout == 0 - 1

\* wait_for_fence::to_ns of a duration given in milliseconds
to_ns(ms) == (ms \div 1000) * 1000000000 + (ms % 1000) * 1000000

\* Device::create_fence
create_fence(signaled) == [tag |-> "Idle", signaled |-> signaled]

\* cmd_buf.status() == MTLCommandBufferStatus::Completed
Completed(fence) == submissions[fence.cmd_buf]

\* Device::get_fence_status
get_fence_status(fence) ==
    IF fence.tag = "Idle" THEN fence.signaled ELSE Completed(fence)

\* no wait_for_fence call is in progress
NotWaiting ==
    sync_call.op = "wait_for_fence" => sync_call.state = "returned"

\* Device::create_fence
CreateFence(signaled) ==
    /\ aborted = "" /\ NotWaiting
    /\ Len(fences) < MaxFences
    /\ fences' = Append(fences, create_fence(signaled))
    /\ sync_call' = [op |-> "create_fence", fence |-> Len(fences) + 1]
    /\ UNCHANGED <<outside_sync, aborted, events, submissions, now>>

\* Device::reset_fence
ResetFence(f) ==
    /\ aborted = "" /\ NotWaiting
    /\ fences' = [fences EXCEPT ![f] = [tag |-> "Idle", signaled |-> FALSE]]
    /\ sync_call' = [op |-> "reset_fence", fence |-> f]
    /\ UNCHANGED <<outside_sync, aborted, events, submissions, now>>

\* Queue::submit with a fence: the fence becomes PendingSubmission(cmd_buf)
SubmitWithFence(f) ==
    /\ aborted = "" /\ NotWaiting
    /\ Len(submissions) < MaxSubmissions
    /\ submissions' = Append(submissions, FALSE)
    /\ fences' = [fences EXCEPT ![f] =
                    [tag |-> "PendingSubmission", cmd_buf |-> Len(submissions) + 1]]
    /\ sync_call' = [op |-> "submit", fence |-> f]
    /\ UNCHANGED <<outside_sync, aborted, events, now>>

\* the GPU completes a submitted command buffer
SubmissionCompleted(c) ==
    /\ aborted = ""
    /\ ~submissions[c]
    /\ submissions' = [submissions EXCEPT ![c] = TRUE]
    /\ UNCHANGED <<outside_sync, aborted, fences, events, now, sync_call>>

\* time passes
Tick ==
    /\ aborted = ""
    /\ now < MaxTime
    /\ now' = now + 1
    /\ UNCHANGED <<outside_sync, aborted, fences, events, submissions, sync_call>>

\* wait_for_fence on an Idle fence: Ok(signaled)
WaitOnIdle(fence) == fence.signaled

\* mutant: the deadline test is off by one millisecond
DeadlinePassedEarly(start, timeout_ns) == to_ns(now + 1 - start) >= timeout_ns

\* if to_ns(start.elapsed()) >= timeout_ns
DeadlinePassed(start, timeout_ns) == to_ns(now - start) >= timeout_ns

\* Device::wait_for_fence up to its first blocking point
WaitForFence(f, timeout_ns) ==
    /\ aborted = "" /\ NotWaiting
    /\ LET fence == fences[f]
           call == [op |-> "wait_for_fence", fence |-> f, timeout_ns |-> timeout_ns,
                    called |-> now, start |-> now, triages |-> 0,
                    state |-> "returned", result |-> FALSE]
       IN sync_call' =
            IF fence.tag = "Idle"
            THEN [call EXCEPT !.result = WaitOnIdle(fence)]
            ELSE IF timeout_ns = NoTimeout
                 THEN [call EXCEPT !.state = "wait_until_completed"]
                 ELSE [call EXCEPT !.state = "loop"]
    /\ UNCHANGED <<outside_sync, aborted, fences, events, submissions, now>>

\* cmd_buf.wait_until_completed() returns; return Ok(true)
WaitUntilCompletedReturns ==
    /\ aborted = ""
    /\ sync_call.op = "wait_for_fence" /\ sync_call.state = "wait_until_completed"
    /\ Completed(fences[sync_call.fence])
    /\ sync_call' = [sync_call EXCEPT !.state = "returned", !.result = TRUE]
    /\ UNCHANGED <<outside_sync, aborted, fences, events, submissions, now>>

\* one round of the loop up to thread::sleep
WaitLoop ==
    /\ aborted = ""
    /\ sync_call.op = "wait_for_fence" /\ sync_call.state = "loop"
    /\ sync_call' =
        IF Completed(fences[sync_call.fence])
        THEN [sync_call EXCEPT !.state = "returned", !.result = TRUE]
        ELSE IF DeadlinePassed(sync_call.start, sync_call.timeout_ns)
             THEN [sync_call EXCEPT !.state = "returned", !.result = FALSE]
             ELSE [sync_call EXCEPT !.state = "sleep"]
    /\ UNCHANGED <<outside_sync, aborted, fences, events, submissions, now>>

\* thread::sleep(1 ms) is over; self.shared.queue_blocker.lock().triage()
WaitSleepReturns ==
    /\ aborted = ""
    /\ sync_call.op = "wait_for_fence" /\ sync_call.state = "sleep"
    /\ now < MaxTime
    /\ now' = now + 1
    /\ sync_call' = [sync_call EXCEPT !.state = "loop", !.triages = @ + 1]
    /\ UNCHANGED <<outside_sync, aborted, fences, events, submissions>>

\* Device::get_fence_status
GetFenceStatus(f) ==
    /\ aborted = "" /\ NotWaiting
    /\ sync_call' = [op |-> "get_fence_status", fence |-> f,
                     result |-> get_fence_status(fences[f])]
    /\ UNCHANGED <<outside_sync, aborted, fences, events, submissions, now>>

\* inputs
Timeouts == {0, to_ns(1), to_ns(2), NoTimeout}

NextFence ==
    \/ \E signaled \in BOOLEAN : CreateFence(signaled)
    \/ \E f \in DOMAIN fences : ResetFence(f)
    \/ \E f \in DOMAIN fences : SubmitWithFence(f)
    \/ \E c \in DOMAIN submissions : SubmissionCompleted(c)
    \/ Tick
    \/ \E f \in DOMAIN fences, timeout_ns \in Timeouts : WaitForFence(f, timeout_ns)
    \/ WaitUntilCompletedReturns
    \/ WaitLoop
    \/ WaitSleepReturns
    \/ \E f \in DOMAIN fences : GetFenceStatus(f)

SpecFence == InitDevice /\ [][NextFence]_vars

\* the last call is a wait_for_fence that has returned
WaitReturned == sync_call.op = "wait_for_fence" /\ sync_call.state = "returned"

\* the fence is complete: Idle and signaled, or its submission has completed
Complete(fence) ==
    \/ fence.tag = "Idle" /\ fence.signaled
    \/ fence.tag = "PendingSubmission" /\ submissions[fence.cmd_buf]

\* at least timeout_ns have passed since the call
TimeoutElapsed ==
    /\ sync_call.timeout_ns # NoTimeout
    /\ (now - sync_call.called) * 1000000 >= sync_call.timeout_ns

(***************************************************************************)
(* C15 as stated: wait_for_fence returns Ok(true) only if the fence is     *)
(* complete, and Ok(false) only after at least timeout_ns has elapsed      *)
(* since the call, for every fence state and every timeout, including an   *)
(* unbounded timeout on an Idle unsignaled fence.                          *)
(***************************************************************************)
C15_FalseOnlyAfterTimeout ==
    WaitReturned =>
        /\ sync_call.result => Complete(fences[sync_call.fence])
        /\ ~sync_call.result => TimeoutElapsed

(***************************************************************************)
(* C15 as amended: wait_for_fence returns Ok(true) only if the fence is    *)
(* complete; on an Idle fence it returns Ok(signaled) at once, whatever    *)
(* the timeout; on a PendingSubmission fence it returns Ok(false) only     *)
(* after at least timeout_ns has elapsed since the call, and never with an *)
(* unbounded timeout.                                                      *)
(***************************************************************************)
C15_FalseAfterTimeoutOrIdle ==
    WaitReturned =>
        LET fence == fences[sync_call.fence]
        IN /\ sync_call.result => Complete(fence)
           /\ fence.tag = "Idle" =>
                /\ sync_call.result = fence.signaled
                /\ sync_call.triages = 0
           /\ (fence.tag = "PendingSubmission" /\ ~sync_call.result) => TimeoutElapsed

\* a wait on a pending fence has timed out after sleeping, and an unbounded
\* wait on an Idle unsignaled fence is possible in the same run
C15_Witness ==
    /\ WaitReturned
    /\ ~sync_call.result
    /\ fences[sync_call.fence].tag = "PendingSubmission"
    /\ sync_call.triages >= 1
    /\ \E f \in DOMAIN fences : fences[f] = [tag |-> "Idle", signaled |-> FALSE]

(***************************************************************************)
(* Events.                                                                 *)
(***************************************************************************)
MaxEvents == 4          \* n::Event objects created

\* Device::create_event: Arc::new(AtomicBool::new(false))
create_event == FALSE

\* Device::set_event: the value stored and what the call does, in order
set_event == [value |-> TRUE, steps |-> <<"store", "triage">>]

\* Device::reset_event
reset_event == [value |-> FALSE, steps |-> <<"store">>]

\* Device::get_event_status: event.0.load(Ordering::Acquire)
get_event_status(event) == event

CreateEvent ==
    /\ aborted = ""
    /\ Len(events) < MaxEvents
    /\ events' = Append(events, create_event)
    /\ sync_call' = [op |-> "create_event", event |-> Len(events) + 1]
    /\ UNCHANGED <<outside_sync, aborted, fences, submissions, now>>

SetEvent(e) ==
    /\ aborted = ""
    /\ events' = [events EXCEPT ![e] = set_event.value]
    /\ sync_call' = [op |-> "set_event", event |-> e, steps |-> set_event.steps]
    /\ UNCHANGED <<outside_sync, aborted, fences, submissions, now>>

ResetEvent(e) ==
    /\ aborted = ""
    /\ events' = [events EXCEPT ![e] = reset_event.value]
    /\ sync_call' = [op |-> "reset_event", event |-> e, steps |-> reset_event.steps]
    /\ UNCHANGED <<outside_sync, aborted, fences, submissions, now>>

GetEventStatus(e) ==
    /\ aborted = ""
    /\ sync_call' = [op |-> "get_event_status", event |-> e,
                     result |-> get_event_status(events[e])]
    /\ UNCHANGED <<outside_sync, aborted, fences, events, submissions, now>>

NextEvent ==
    \/ CreateEvent
    \/ \E e \in DOMAIN events : SetEvent(e)
    \/ \E e \in DOMAIN events : ResetEvent(e)
    \/ \E e \in DOMAIN events : GetEventStatus(e)

SpecEvent == InitDevice /\ [][NextEvent]_vars

(***************************************************************************)
(* C16: every call to set_event and every call to reset_event stores the   *)
(* new value and then invokes triage on the queue blocker before it        *)
(* returns; get_event_status returns the most recently stored value, false *)
(* for a freshly created event.                                            *)
(***************************************************************************)
C16_TriageAfterEveryStore ==
    /\ sync_call.op \in {"set_event", "reset_event"} =>
        /\ events[sync_call.event] = (sync_call.op = "set_event")
        /\ sync_call.steps = <<"store", "triage">>
    /\ sync_call.op = "create_event" => ~events[sync_call.event]
    /\ sync_call.op = "get_event_status" => sync_call.result = events[sync_call.event]

(***************************************************************************)
(* Occlusion query pools and the visibility tracker.                       *)
(***************************************************************************)
max_visibility_queries == 3     \* capacity of the visibility allocator
MaxPools == 2                   \* n::QueryPool objects created

\* Range<query::Id>
Range(start, end) == [start |-> start, end |-> end]

\* ids of a range
Ids(range) == range.start..(range.end - 1)

\* Shared::new: the whole capacity is free, every availability flag is zero,
\* nobody holds the allocator lock (0) or waits on the condition variable, no
\* flag was written since the last triage (dirty) and no triage is between
\* the allocator lock and notify_all (notifying)
VisibilityNew ==
    [tag |-> "Visibility",
     free_ranges |-> <<Range(0, max_visibility_queries)>>,
     availability |-> [id \in 0..(max_visibility_queries - 1) |-> 0],
     lock |-> 0,
     parked |-> {},
     dirty |-> FALSE,
     notifying |-> FALSE]

\* RangeAllocator::allocate_range: the position of the best fit, 0 when no free
\* range is long enough; a range of exactly the length ends the search
RECURSIVE BestFit(_, _, _, _)
BestFit(free_ranges, length, k, best) ==
    IF k > Len(free_ranges) THEN best
    ELSE LET range_length == free_ranges[k].end - free_ranges[k].start
         IN IF range_length < length THEN BestFit(free_ranges, length, k + 1, best)
            ELSE IF range_length = length THEN k
            ELSE IF best = 0
                    \/ range_length < free_ranges[best].end - free_ranges[best].start
                 THEN BestFit(free_ranges, length, k + 1, k)
                 ELSE BestFit(free_ranges, length, k + 1, best)

RemoveAt(seq, k) == SubSeq(seq, 1, k - 1) \o SubSeq(seq, k + 1, Len(seq))

InsertAt(seq, k, x) == SubSeq(seq, 1, k - 1) \o <<x>> \o SubSeq(seq, k, Len(seq))

\* RangeAllocator::allocate_range
allocate_range(free_ranges, length) ==
    LET index == BestFit(free_ranges, length, 1, 0)
    IN IF index = 0
       THEN [tag |-> "Err", free_ranges |-> free_ranges]
       ELSE LET range == free_ranges[index]
            IN [tag |-> "Ok",
                range |-> Range(range.start, range.start + length),
                free_ranges |-> IF range.end - range.start = length
                                THEN RemoveAt(free_ranges, index)
                                ELSE [free_ranges EXCEPT ![index].start = @ + length]]

\* RangeAllocator::free_range: insert in order and merge with the neighbours
free_range(free_ranges, range) ==
    LET after == {k \in DOMAIN free_ranges : free_ranges[k].start > range.start}
        i == IF after = {} THEN Len(free_ranges) + 1
             ELSE CHOOSE k \in after : \A j \in after : k <= j
        left == i > 1 /\ range.start = free_ranges[i - 1].end
        right == i <= Len(free_ranges) /\ range.end = free_ranges[i].start
    IN IF left /\ right
       THEN RemoveAt([free_ranges EXCEPT ![i - 1].end = free_ranges[i].end], i)
       ELSE IF left THEN [free_ranges EXCEPT ![i - 1].end = range.end]
       ELSE IF right THEN [free_ranges EXCEPT ![i].start = range.start]
       ELSE InsertAt(free_ranges, i, range)

\* mutant: the pool is handed a range although the allocator has none
create_query_pool_unchecked(free_ranges, ty, count) ==
    IF ty = "Occlusion"
    THEN LET r == allocate_range(free_ranges, count)
         IN [tag |-> "Ok",
             pool |-> [tag |-> "Occlusion",
                       range |-> IF r.tag = "Ok" THEN r.range ELSE Range(0, count)],
             free_ranges |-> r.free_ranges]
    ELSE IF ty = "Timestamp"
         THEN [tag |-> "Ok", pool |-> [tag |-> "Timestamp"], free_ranges |-> free_ranges]
         ELSE [tag |-> "Err", error |-> "Unsupported", free_ranges |-> free_ranges]

\* Device::create_query_pool
create_query_pool(free_ranges, ty, count) ==
    IF ty = "Occlusion"
    THEN LET r == allocate_range(free_ranges, count)
         IN IF r.tag = "Err"
            THEN [tag |-> "Err", error |-> "OutOfMemory::Host",
                  free_ranges |-> r.free_ranges]
            ELSE [tag |-> "Ok", pool |-> [tag |-> "Occlusion", range |-> r.range],
                  free_ranges |-> r.free_ranges]
    ELSE IF ty = "Timestamp"
         THEN [tag |-> "Ok", pool |-> [tag |-> "Timestamp"], free_ranges |-> free_ranges]
         ELSE [tag |-> "Err", error |-> "Unsupported", free_ranges |-> free_ranges]

\* Device::destroy_query_pool
destroy_query_pool(free_ranges, pool) ==
    IF pool.tag = "Occlusion" THEN free_range(free_ranges, pool.range) ELSE free_ranges

\* mutant: only the first queried flag is tested
are_available_first(availability, pool_base, queries) ==
    queries.start < queries.end => availability[pool_base + queries.start] # 0

\* VisibilityShared::are_available
are_available(availability, pool_base, queries) ==
    \A id \in Ids(queries) : availability[pool_base + id] # 0

(***************************************************************************)
(* Query pools as a state machine. A thread in get_query_pool_results with *)
(* WAIT is at "lock" (about to take the allocator lock), "check" (holds    *)
(* the lock, about to test are_available), "wait" (holds the lock, about   *)
(* to call condvar.wait), "parked" (in condvar.wait, lock released) or     *)
(* "returned".                                                             *)
(***************************************************************************)
MaxWaiters == 1         \* threads that call get_query_pool_results with WAIT

\* Shared::new
SharedNew ==
    /\ aborted = ""
    /\ visibility = NoVisibility
    /\ visibility' = VisibilityNew
    /\ UNCHANGED <<outside_query, aborted, pools, threads, query_call>>

\* the visibility tracker exists and the allocator lock is free
Unlocked == aborted = "" /\ visibility # NoVisibility /\ visibility.lock = 0

\* the pool is borrowed by a call in progress
Borrowed(p) ==
    \E t \in DOMAIN threads : threads[t].pool = p /\ threads[t].pc # "returned"

\* Device::create_query_pool: the allocator lock is held for allocate_range
CreateQueryPool(ty, count) ==
    /\ Unlocked
    /\ LET r == create_query_pool(visibility.free_ranges, ty, count)
       IN /\ r.tag = "Ok" => Len(pools) < MaxPools
          /\ visibility' = [visibility EXCEPT !.free_ranges = r.free_ranges]
          /\ pools' = IF r.tag = "Ok" THEN Append(pools, r.pool) ELSE pools
          /\ query_call' = [op |-> "create_query_pool", ty |-> ty, count |-> count,
                            result |-> IF r.tag = "Ok" THEN "Ok" ELSE r.error]
    /\ UNCHANGED <<outside_query, aborted, threads>>

\* Device::destroy_query_pool takes the pool by value
DestroyQueryPool(p) ==
    /\ Unlocked
    /\ pools[p] # Destroyed
    /\ ~Borrowed(p)
    /\ visibility' = [visibility EXCEPT
                        !.free_ranges = destroy_query_pool(@, pools[p])]
    /\ pools' = [pools EXCEPT ![p] = Destroyed]
    /\ query_call' = [op |-> "destroy_query_pool", pool |-> p, destroyed |-> pools[p]]
    /\ UNCHANGED <<outside_query, aborted, threads>>

\* a completed submission writes the availability flag of one query
WriteAvailability(id) ==
    /\ aborted = "" /\ visibility # NoVisibility
    /\ visibility.availability[id] = 0
    /\ \E p \in DOMAIN pools :
        pools[p].tag = "Occlusion" /\ id \in Ids(pools[p].range)
    /\ visibility' = [visibility EXCEPT !.availability[id] = 1, !.dirty = TRUE]
    /\ UNCHANGED <<outside_query, aborted, pools, threads, query_call>>

\* triage after the flags changed: the notifier passes through the allocator
\* lock before it notifies
TriageLock ==
    /\ Unlocked
    /\ visibility.dirty
    /\ visibility' = [visibility EXCEPT !.dirty = FALSE, !.notifying = TRUE]
    /\ UNCHANGED <<outside_query, aborted, pools, threads, query_call>>

\* visibility.condvar.notify_all wakes every thread parked on the condition
\* variable; each takes the allocator lock again before it goes on
NotifyAll ==
    /\ aborted = "" /\ visibility # NoVisibility
    /\ visibility.notifying
    /\ visibility' = [visibility EXCEPT !.notifying = FALSE, !.parked = {}]
    /\ threads' = [t \in DOMAIN threads |->
                    IF t \in visibility.parked
                    THEN [threads[t] EXCEPT !.pc = "lock"] ELSE threads[t]]
    /\ UNCHANGED <<outside_query, aborted, pools, query_call>>

\* Device::get_query_pool_results without WAIT
GetQueryPoolResults(p, queries) ==
    /\ aborted = "" /\ visibility # NoVisibility
    /\ pools[p] # Destroyed
    /\ query_call' = [op |-> "get_query_pool_results", pool |-> p, queries |-> queries,
                      result |-> IF pools[p].tag = "Occlusion"
                                 THEN are_available(visibility.availability,
                                                    pools[p].range.start, queries)
                                 ELSE TRUE]
    /\ UNCHANGED <<outside_query, aborted, visibility, pools, threads>>

\* Device::get_query_pool_results with WAIT is called by a new thread
GetQueryPoolResultsWait(p, queries) ==
    /\ aborted = "" /\ visibility # NoVisibility
    /\ pools[p] # Destroyed
    /\ Len(threads) < MaxWaiters
    /\ threads' = Append(threads,
            [pool |-> p, queries |-> queries,
             pc |-> IF pools[p].tag = "Occlusion" THEN "lock" ELSE "returned",
             result |-> pools[p].tag # "Occlusion"])
    /\ UNCHANGED <<outside_query, aborted, visibility, pools, query_call>>

\* mutant: the thread goes on to the check without the allocator lock
WaitLockSkipped(t) ==
    /\ aborted = "" /\ visibility # NoVisibility
    /\ threads[t].pc = "lock"
    /\ threads' = [threads EXCEPT ![t].pc = "check"]
    /\ UNCHANGED <<outside_query, aborted, visibility, pools, query_call>>

\* let mut guard = visibility.allocator.lock(), also when condvar.wait
\* takes the lock again after a wake-up
WaitLock(t) ==
    /\ Unlocked
    /\ threads[t].pc = "lock"
    /\ visibility' = [visibility EXCEPT !.lock = t]
    /\ threads' = [threads EXCEPT ![t].pc = "check"]
    /\ UNCHANGED <<outside_query, aborted, pools, query_call>>

\* while !visibility.are_available(pool_range.start, &queries): the loop ends
\* with true and the guard is dropped, or the body is entered
WaitCheck(t) ==
    /\ aborted = ""
    /\ threads[t].pc = "check"
    /\ IF are_available(visibility.availability, pools[threads[t].pool].range.start,
                        threads[t].queries)
       THEN /\ threads' = [threads EXCEPT ![t].pc = "returned", ![t].result = TRUE]
            /\ visibility' = [visibility EXCEPT !.lock = 0]
       ELSE /\ threads' = [threads EXCEPT ![t].pc = "wait"]
            /\ UNCHANGED visibility
    /\ UNCHANGED <<outside_query, aborted, pools, query_call>>

\* visibility.condvar.wait(&mut guard) releases the lock and parks the thread
\* in one step
CondvarWait(t) ==
    /\ aborted = ""
    /\ threads[t].pc = "wait"
    /\ threads' = [threads EXCEPT ![t].pc = "parked"]
    /\ visibility' = [visibility EXCEPT !.lock = 0, !.parked = @ \cup {t}]
    /\ UNCHANGED <<outside_query, aborted, pools, query_call>>

\* inputs
QueryTypes == {"Occlusion", "Timestamp", "PipelineStatistics"}
QueryCounts == 1..max_visibility_queries
QueryRanges == {Range(a, b) : a \in {0, 1}, b \in 1..2}

\* the queries lie inside the pool
InPool(p, queries) ==
    /\ queries.start <= queries.end
    /\ pools[p].tag = "Occlusion" => queries.end <= pools[p].range.end - pools[p].range.start

NextQuery ==
    \/ SharedNew
    \/ \E ty \in QueryTypes, count \in QueryCounts : CreateQueryPool(ty, count)
    \/ \E p \in DOMAIN pools : DestroyQueryPool(p)
    \/ \E id \in 0..(max_visibility_queries - 1) : WriteAvailability(id)
    \/ TriageLock
    \/ NotifyAll
    \/ \E p \in DOMAIN pools, queries \in QueryRanges :
            InPool(p, queries) /\ GetQueryPoolResults(p, queries)
    \/ \E p \in DOMAIN pools, queries \in QueryRanges :
            InPool(p, queries) /\ GetQueryPoolResultsWait(p, queries)
    \/ \E t \in DOMAIN threads : WaitLock(t)
    \/ \E t \in DOMAIN threads : WaitCheck(t)
    \/ \E t \in DOMAIN threads : CondvarWait(t)

SpecQuery == InitDevice /\ [][NextQuery]_vars

\* every thread in a call goes on, the allocator lock is handed to each
\* thread that keeps asking for it, and a triage that began is carried out
SpecQueryFair ==
    /\ SpecQuery
    /\ \A t \in 1..MaxWaiters :
        /\ SF_vars(t \in DOMAIN threads /\ WaitLock(t))
        /\ WF_vars(t \in DOMAIN threads /\ WaitCheck(t))
        /\ WF_vars(t \in DOMAIN threads /\ CondvarWait(t))
    /\ SF_vars(TriageLock)
    /\ WF_vars(NotifyAll)

(***************************************************************************)
(* Properties of the visibility tracker                                    *)
(***************************************************************************)
\* queried ids of pool p whose availability flag is still zero
Unwritten(p, queries) ==
    {id \in Ids(queries) : visibility.availability[pools[p].range.start + id] = 0}

\* a call of get_query_pool_results without WAIT on an occlusion pool returns
PollReturns ==
    /\ query_call' # query_call
    /\ query_call'.op = "get_query_pool_results"
    /\ pools[query_call'.pool].tag = "Occlusion"

\* the call of thread t with WAIT on an occlusion pool returns
WaitReturns(t) ==
    /\ t \in DOMAIN threads
    /\ threads[t].pc = "check"
    /\ threads'[t].pc = "returned"

\* C17: get_query_pool_results without WAIT returns Ok(true) exactly when no
\* queried availability flag of the pool is zero, hence Ok(false) while any of
\* the K flags of the leased range is unwritten; with WAIT it returns only when
\* no queried flag is zero, and then Ok(true).
C17_AvailableIffAllWritten ==
    [][/\ PollReturns =>
            (query_call'.result <=>
                Cardinality(Unwritten(query_call'.pool, query_call'.queries)) = 0)
       /\ \A t \in DOMAIN threads :
            WaitReturns(t) =>
                /\ Cardinality(Unwritten(threads[t].pool, threads[t].queries)) = 0
                /\ threads'[t].result]_vars

\* a poll of two ids returned Ok(false) with one of the two flags written,
\* while a thread with WAIT on the same pool is parked
C17_Witness ==
    /\ query_call.op = "get_query_pool_results"
    /\ ~query_call.result
    /\ pools[query_call.pool].tag = "Occlusion"
    /\ query_call.queries.end - query_call.queries.start = 2
    /\ Cardinality(Unwritten(query_call.pool, query_call.queries)) = 1
    /\ \E t \in DOMAIN threads :
        threads[t].pc = "parked" /\ threads[t].pool = query_call.pool

\* the occlusion pools that are alive
LivePools == {p \in DOMAIN pools : pools[p].tag = "Occlusion"}

\* the ids the allocator holds as free
FreeIds == UNION {Ids(visibility.free_ranges[k]) : k \in DOMAIN visibility.free_ranges}

\* the ids leased to live occlusion pools
LeasedIds == UNION {Ids(pools[p].range) : p \in LivePools}

\* some run of count consecutive ids within the capacity is leased to no pool
HasRoom(count) ==
    \E start \in 0..(max_visibility_queries - count) :
        Ids(Range(start, start + count)) \cap LeasedIds = {}

InWait(t) == t \in DOMAIN threads /\ threads[t].pc # "returned"

\* a triage is due: a flag was written and notify_all has not followed yet
TriagePending == visibility.dirty \/ visibility.notifying

MaxDeclared == 2        \* function constants a function declares
MaxSupplied == 2        \* constants of a pso::Specialization
MaxConstantId == 2      \* largest constant id

\* mutant: the supplied constant is looked up by its position
find_by_position(constants, index) ==
    IF index + 1 <= Len(constants) THEN index + 1 ELSE 0

\* specialization.constants.iter().find(|c| c.id as NSUInteger == index): the
\* position of the first supplied constant with the id, 0 for None
find(constants, index) ==
    LET found == {k \in DOMAIN constants : constants[k].id = index}
    IN IF found = {} THEN 0 ELSE CHOOSE k \in found : \A j \in found : k <= j

\* the loop over the dictionary's values, from the i-th on: values holds the
\* set_constant_value_at_index calls made so far
RECURSIVE set_constants(_, _, _, _)
set_constants(all_values, specialization, i, values) ==
    IF i > Len(all_values) THEN [tag |-> "Ok", values |-> values]
    ELSE LET object == all_values[i]
             k == find(specialization.constants, object.index)
         IN IF k # 0
            THEN LET c == specialization.constants[k]
                 IN IF c.range_start >= specialization.data_len
                    THEN [tag |-> "Panic", values |-> values]
                    ELSE set_constants(all_values, specialization, i + 1,
                            Append(values, [ptr |-> c.range_start,
                                            index |-> c.id]))
            ELSE IF object.required
                 THEN [tag |-> "Err", error |-> "MissingRequiredSpecialization",
                       values |-> values]
                 ELSE set_constants(all_values, specialization, i + 1, values)

\* get_final_function: library says whether it has the entry point, which
\* constants the function declares (in the order of allValues) and whether
\* the specialized function compiles
get_final_function(library, specialization, function_specialization) ==
    IF ~library.has_entry
    THEN [tag |-> "Err", error |-> "InvalidEntryPoint", values |-> <<>>]
    ELSE IF ~function_specialization
    THEN [tag |-> "Ok", function |-> "unspecialized", values |-> <<>>]
    ELSE IF Len(library.all_values) = 0
    THEN [tag |-> "Ok", function |-> "unspecialized", values |-> <<>>]
    ELSE LET r == set_constants(library.all_values, specialization, 1, <<>>)
         IN IF r.tag # "Ok" THEN r
            ELSE IF ~library.compiles
            THEN [tag |-> "Err", error |-> "BadSpecialization", values |-> r.values]
            ELSE [tag |-> "Ok", function |-> "specialized", values |-> r.values]

\* Device::load_shader calls get_final_function; one call is looked at
GetFinalFunction(library, specialization, function_specialization) ==
    /\ aborted = ""
    /\ function_call = NoCall
    /\ LET r == get_final_function(library, specialization, function_specialization)
       IN /\ function_call' = [op |-> "get_final_function", library |-> library,
                               specialization |-> specialization,
                               function_specialization |-> function_specialization,
                               result |-> r]
          /\ aborted' = IF r.tag = "Panic" THEN "index out of bounds" ELSE aborted
    /\ UNCHANGED outside_function

\* inputs
ConstantIds == 0..MaxConstantId

\* the function constants of a function, in any order; the indices differ
AllValues ==
    {a \in SeqsUpTo([index : ConstantIds, required : BOOLEAN], MaxDeclared) :
        \A i, j \in DOMAIN a : i # j => a[i].index # a[j].index}

\* one 4-byte value in data per supplied constant
Specializations ==
    {[constants |-> [k \in DOMAIN ids |-> [id |-> ids[k], range_start |-> 4 * (k - 1)]],
      data_len |-> 4 * Len(ids)] : ids \in SeqsUpTo(ConstantIds, MaxSupplied)}

Libraries ==
    [has_entry : BOOLEAN, all_values : AllValues, compiles : BOOLEAN]

NextFunction ==
    /\ function_call = NoCall
    /\ \E library \in Libraries, specialization \in Specializations,
          function_specialization \in BOOLEAN :
        GetFinalFunction(library, specialization, function_specialization)

SpecFunction == InitDevice /\ [][NextFunction]_vars

\* the call the claim is about: function specialization is supported, the
\* entry point exists and the function declares at least one constant
Specializing ==
    /\ function_call.op = "get_final_function"
    /\ function_call.function_specialization
    /\ function_call.library.has_entry
    /\ Len(function_call.library.all_values) >= 1

DeclaredIds ==
    {function_call.library.all_values[i].index :
        i \in DOMAIN function_call.library.all_values}

SuppliedIds ==
    {function_call.specialization.constants[k].id :
        k \in DOMAIN function_call.specialization.constants}

SetIds ==
    {function_call.result.values[k].index : k \in DOMAIN function_call.result.values}

\* some declared constant marked required has no supplied constant of its id
MissingRequired ==
    \E i \in DOMAIN function_call.library.all_values :
        /\ function_call.library.all_values[i].required
        /\ function_call.library.all_values[i].index \notin SuppliedIds

FailsMissing ==
    /\ function_call.result.tag = "Err"
    /\ function_call.result.error = "MissingRequiredSpecialization"

\* the specialization without the constants the function does not declare
DeclaredOnly ==
    [function_call.specialization EXCEPT
        !.constants = SelectSeq(@, LAMBDA c : c.id \in DeclaredIds)]

\* the undeclared supplied constants are not set and do not change the result
UndeclaredIgnored ==
    /\ SetIds \subseteq DeclaredIds
    /\ get_final_function(function_call.library, DeclaredOnly, TRUE)
            = function_call.result

\* C20 as stated: the call fails with MissingRequiredSpecialization iff a
\* required declared constant is not supplied, every declared constant with a
\* supplied id is set at that id in every call, and undeclared supplied
\* constants are never set and never change the outcome.
C20_EveryMatchSet ==
    Specializing =>
        /\ FailsMissing <=> MissingRequired
        /\ DeclaredIds \cap SuppliedIds \subseteq SetIds
        /\ UndeclaredIgnored

\* C20 amended: as C20, but every declared constant with a supplied id is set
\* at that id in the calls that do not fail with MissingRequiredSpecialization
\* (a failing call returns at the first missing required constant).
C20_MatchSetUnlessMissing ==
    Specializing =>
        /\ FailsMissing <=> MissingRequired
        /\ ~FailsMissing => DeclaredIds \cap SuppliedIds \subseteq SetIds
        /\ UndeclaredIgnored

\* a specialized function of two declared constants: the required one is
\* supplied and set, the optional one is not supplied, and an undeclared
\* constant is supplied
C20_Witness ==
    /\ Specializing
    /\ function_call.result.tag = "Ok"
    /\ \E i, j \in DOMAIN function_call.library.all_values :
        /\ function_call.library.all_values[i].required
        /\ function_call.library.all_values[i].index \in SetIds
        /\ ~function_call.library.all_values[j].required
        /\ function_call.library.all_values[j].index \notin SuppliedIds
    /\ SuppliedIds \ DeclaredIds # {}

(***************************************************************************)
(* load_shader: translation of a shader module, with and without the       *)
(* pipeline cache. A shader module is known by its spv_hash; whether it    *)
(* was parsed by naga, is translated by naga, compiles as MSL and is       *)
(* translated by SPIRV-Cross are properties of its content.                *)
(***************************************************************************)
MaxShaders == 2         \* threads that call load_shader

\* mutant: the key leaves out the hash of the module
SpvToMslKeyNoHash(naga_options, pipeline_options, spv_hash) ==
    [options |-> naga_options, pipeline_options |-> pipeline_options, spv_hash |-> 0]

\* pipeline_cache::SpvToMslKey { options, pipeline_options, spv_hash }
SpvToMslKey(naga_options, pipeline_options, spv_hash) ==
    [options |-> naga_options, pipeline_options |-> pipeline_options,
     spv_hash |-> spv_hash]

\* the closure get_module_info: naga::back::msl::write_string and the entry
\* point map
get_module_info(module, naga_options, pipeline_options) ==
    IF module.translates
    THEN [tag |-> "Ok",
          value |-> [source |-> <<"msl", module.spv_hash, naga_options, pipeline_options>>,
                     entry_point_map |-> <<"entry points", module.spv_hash>>,
                     rasterization_enabled |-> TRUE]]
    ELSE [tag |-> "Err", error |-> "MSL"]

\* device.lock().new_library_with_source(module_info.source, &options) and the
\* n::ModuleInfo built from it
new_library(module, module_info) ==
    IF module.compiles
    THEN [tag |-> "Ok",
          value |-> [library |-> module_info.source,
                     entry_point_map |-> module_info.entry_point_map,
                     rasterization_enabled |-> module_info.rasterization_enabled]]
    ELSE [tag |-> "Err", error |-> "library"]

\* compile_shader_library_cross
compile_shader_library_cross(module) ==
    IF module.cross
    THEN [tag |-> "Ok",
          value |-> [library |-> <<"spirv-cross", module.spv_hash>>,
                     entry_point_map |-> <<"entry points", module.spv_hash>>,
                     rasterization_enabled |-> TRUE]]
    ELSE [tag |-> "Err", error |-> "cross"]

\* mutant: the fallback translator is run whatever the primary returned
NeedsFallbackAlways(result) == TRUE

\* #[cfg(feature = "cross")] if result.is_err()
NeedsFallback(result) == result.tag = "Err"

\* result.map_err(|e| pso::CreationError::ShaderCreationError(stage.into(), ..))
map_err(result, stage) ==
    IF result.tag = "Err"
    THEN [tag |-> "Err", error |-> "ShaderCreationError", stage |-> StageFlag(stage)]
    ELSE result

\* the backend is built with or without the feature `cross`
Build(cross) ==
    /\ aborted = ""
    /\ features = [tag |-> "None"]
    /\ features' = [tag |-> "Features", cross |-> cross]
    /\ UNCHANGED <<outside_shader, aborted, pipeline_cache, translations, shaders>>

Built == aborted = "" /\ features.tag = "Features"

\* the key of the call of thread t
KeyOf(t) ==
    SpvToMslKey(shaders[t].naga_options, shaders[t].pipeline_options,
                shaders[t].module.spv_hash)

\* Device::load_shader is called by a new thread: the primary result is the
\* parse error of the module, or compile_shader_library_naga is entered
LoadShader(module, stage, allow_point_size, cached) ==
    /\ Built
    /\ Len(shaders) < MaxShaders
    /\ shaders' = Append(shaders,
            [module |-> module, stage |-> stage, cached |-> cached,
             naga_options |-> "naga_options",
             pipeline_options |-> [allow_point_size |-> allow_point_size],
             pc |-> IF module.naga = "Err" THEN "primary_done"
                    ELSE IF cached THEN "lookup" ELSE "translate",
             attempts |-> <<>>,
             module_info |-> None,
             primary |-> IF module.naga = "Err"
                         THEN [tag |-> "Err", error |-> "parse"] ELSE None,
             result |-> None])
    /\ UNCHANGED <<outside_shader, aborted, features, pipeline_cache, translations>>

\* spv_to_msl_cache.get_or_create_with(&key, ..): a key the map holds is
\* returned, otherwise the map stays locked while the value is created
CacheLookup(t) ==
    /\ Built
    /\ shaders[t].pc = "lookup"
    /\ pipeline_cache.lock = 0
    /\ IF KeyOf(t) \in DOMAIN pipeline_cache.spv_to_msl
       THEN /\ shaders' = [shaders EXCEPT
                    ![t].module_info = Some(pipeline_cache.spv_to_msl[KeyOf(t)]),
                    ![t].attempts = Append(@, "naga"),
                    ![t].pc = "library"]
            /\ UNCHANGED pipeline_cache
       ELSE /\ shaders' = [shaders EXCEPT ![t].pc = "create"]
            /\ pipeline_cache' = [pipeline_cache EXCEPT !.lock = t]
    /\ UNCHANGED <<outside_shader, aborted, features, translations>>

\* || get_module_info().unwrap() inside get_or_create_with
CacheCreate(t) ==
    /\ Built
    /\ shaders[t].pc = "create"
    /\ LET r == get_module_info(shaders[t].module, shaders[t].naga_options,
                                shaders[t].pipeline_options)
       IN /\ translations' = Append(translations, [thread |-> t, cached |-> TRUE])
          /\ IF r.tag = "Err"
             THEN /\ aborted' = "load_shader: unwrap on an Err value"
                  /\ shaders' = [shaders EXCEPT ![t].attempts = Append(@, "naga"),
                                                ![t].pc = "panicked"]
                  /\ UNCHANGED pipeline_cache
             ELSE /\ pipeline_cache' =
                        [spv_to_msl |-> MapInsert(pipeline_cache.spv_to_msl, KeyOf(t),
                                                  r.value),
                         lock |-> 0]
                  /\ shaders' = [shaders EXCEPT ![t].module_info = Some(r.value),
                                                ![t].attempts = Append(@, "naga"),
                                                ![t].pc = "library"]
                  /\ UNCHANGED aborted
    /\ UNCHANGED <<outside_shader, features>>

\* get_module_info()? without a pipeline cache
Translate(t) ==
    /\ Built
    /\ shaders[t].pc = "translate"
    /\ LET r == get_module_info(shaders[t].module, shaders[t].naga_options,
                                shaders[t].pipeline_options)
       IN /\ translations' = Append(translations, [thread |-> t, cached |-> FALSE])
          /\ shaders' = IF r.tag = "Err"
                        THEN [shaders EXCEPT ![t].primary = r,
                                             ![t].attempts = Append(@, "naga"),
                                             ![t].pc = "primary_done"]
                        ELSE [shaders EXCEPT ![t].module_info = Some(r.value),
                                             ![t].attempts = Append(@, "naga"),
                                             ![t].pc = "library"]
    /\ UNCHANGED <<outside_shader, aborted, features, pipeline_cache>>

\* the rest of compile_shader_library_naga: the MSL source becomes a library
NewLibrary(t) ==
    /\ Built
    /\ shaders[t].pc = "library"
    /\ shaders' = [shaders EXCEPT
            ![t].primary = new_library(shaders[t].module, Unwrap(shaders[t].module_info)),
            ![t].pc = "primary_done"]
    /\ UNCHANGED <<outside_shader, aborted, features, pipeline_cache, translations>>

\* load_shader after the primary attempt: the fallback when it is built in
\* and needed, then map_err
Fallback(t) ==
    /\ Built
    /\ shaders[t].pc = "primary_done"
    /\ LET fallback == features.cross /\ NeedsFallback(shaders[t].primary)
           result == IF fallback THEN compile_shader_library_cross(shaders[t].module)
                     ELSE shaders[t].primary
       IN shaders' = [shaders EXCEPT
            ![t].attempts = IF fallback THEN Append(@, "cross") ELSE @,
            ![t].result = map_err(result, shaders[t].stage),
            ![t].pc = "returned"]
    /\ UNCHANGED <<outside_shader, aborted, features, pipeline_cache, translations>>

\* inputs: the shader modules, one spv_hash per content
ShaderModules ==
    {[spv_hash |-> 1, naga |-> "Ok", translates |-> TRUE, compiles |-> TRUE, cross |-> TRUE],
     [spv_hash |-> 2, naga |-> "Ok", translates |-> TRUE, compiles |-> FALSE, cross |-> TRUE],
     [spv_hash |-> 3, naga |-> "Ok", translates |-> TRUE, compiles |-> FALSE, cross |-> FALSE],
     [spv_hash |-> 4, naga |-> "Ok", translates |-> FALSE, compiles |-> FALSE, cross |-> TRUE],
     [spv_hash |-> 5, naga |-> "Ok", translates |-> FALSE, compiles |-> FALSE, cross |-> FALSE],
     [spv_hash |-> 6, naga |-> "Err", translates |-> FALSE, compiles |-> FALSE, cross |-> TRUE],
     [spv_hash |-> 7, naga |-> "Err", translates |-> FALSE, compiles |-> FALSE, cross |-> FALSE]}

NextShader ==
    \/ \E cross \in BOOLEAN : Build(cross)
    \/ \E module \in ShaderModules, stage \in {"Vertex", "Fragment"},
          allow_point_size \in BOOLEAN, cached \in BOOLEAN :
            LoadShader(module, stage, allow_point_size, cached)
    \/ \E t \in DOMAIN shaders : CacheLookup(t)
    \/ \E t \in DOMAIN shaders : CacheCreate(t)
    \/ \E t \in DOMAIN shaders : Translate(t)
    \/ \E t \in DOMAIN shaders : NewLibrary(t)
    \/ \E t \in DOMAIN shaders : Fallback(t)

SpecShader == InitDevice /\ [][NextShader]_vars

(***************************************************************************)
(* Properties of shader translation                                        *)
(***************************************************************************)
\* what the cache key is made of: translator options, pipeline options and
\* the hash of the source
Request(t) ==
    <<shaders[t].naga_options, shaders[t].pipeline_options, shaders[t].module.spv_hash>>

\* the runs of the translation closure inside the cache for the request of t
CachedRuns(t) ==
    {k \in DOMAIN translations :
        translations[k].cached /\ Request(translations[k].thread) = Request(t)}

\* thread t has its module info from the pipeline cache
ThroughCache(t) == shaders[t].cached /\ IsSome(shaders[t].module_info)

\* C21: for every request served through the pipeline cache the translation
\* closure has run exactly once, whatever number of threads asked for it and
\* however they interleave; the threads with the same request hold the same
\* module info (source, entry point map, rasterization flag), the one
\* translated from their module; no request is translated in the cache twice.
C21_TranslatedOnce ==
    \A t \in DOMAIN shaders :
        /\ shaders[t].cached => Cardinality(CachedRuns(t)) <= 1
        /\ ThroughCache(t) =>
            /\ Cardinality(CachedRuns(t)) = 1
            /\ Unwrap(shaders[t].module_info).source[2] = shaders[t].module.spv_hash
            /\ \A u \in DOMAIN shaders :
                ThroughCache(u) /\ Request(u) = Request(t) =>
                    shaders[u].module_info = shaders[t].module_info

\* two threads with the same request are in load_shader at once, the second
\* has the module info the first one translated, and one translation ran
C21_Witness ==
    \E t, u \in DOMAIN shaders :
        /\ t # u
        /\ Request(t) = Request(u)
        /\ ThroughCache(t) /\ ThroughCache(u)
        /\ shaders[t].pc = "library"
        /\ shaders[u].pc = "library"
        /\ Len(translations) = 1

\* the primary translator failed for the module of thread t
PrimaryFailed(t) ==
    \/ shaders[t].module.naga = "Err"
    \/ ~shaders[t].module.translates
    \/ ~shaders[t].module.compiles

\* C22: no load_shader call aborts the process, with or without a pipeline
\* cache; a call whose primary translation failed and that has returned has
\* the result of the fallback translator or Err(ShaderCreationError) for its
\* stage.
C22_FailureIsTyped ==
    /\ aborted = ""
    /\ \A t \in DOMAIN shaders :
        /\ shaders[t].pc # "panicked"
        /\ shaders[t].pc = "returned" /\ PrimaryFailed(t) =>
            \/ "cross" \in {shaders[t].attempts[k] : k \in DOMAIN shaders[t].attempts}
            \/ /\ shaders[t].result.tag = "Err"
               /\ shaders[t].result.error = "ShaderCreationError"
               /\ shaders[t].result.stage = StageFlag(shaders[t].stage)

\* the translators thread t has run, as a set
Attempted(t) == {shaders[t].attempts[k] : k \in DOMAIN shaders[t].attempts}

\* C23: the fallback translator runs only after the primary attempt has ended
\* in an error, and only when it is built in; a call returns after the
\* fallback iff the primary attempt ended in an error and the fallback is
\* built in; each translator runs at most once, the primary one first; a
\* call returns the primary output when the primary succeeded, the outcome of
\* the fallback when that ran, and every error as ShaderCreationError with
\* the stage of the call.
C23_PrimaryThenFallback ==
    \A t \in DOMAIN shaders :
        /\ Len(shaders[t].attempts) <= 2
        /\ Len(shaders[t].attempts) = 2 => shaders[t].attempts = <<"naga", "cross">>
        /\ "cross" \in Attempted(t) =>
            /\ shaders[t].pc = "returned"
            /\ PrimaryFailed(t)
            /\ features.cross
        /\ shaders[t].pc = "returned" =>
            /\ "cross" \in Attempted(t) <=> (PrimaryFailed(t) /\ features.cross)
            /\ ~PrimaryFailed(t) =>
                /\ shaders[t].result.tag = "Ok"
                /\ shaders[t].result.value.library[1] = "msl"
                /\ shaders[t].result.value.library[2] = shaders[t].module.spv_hash
            /\ "cross" \in Attempted(t) =>
                /\ shaders[t].result.tag = "Ok" <=> shaders[t].module.cross
                /\ shaders[t].result.tag = "Ok" =>
                    shaders[t].result.value.library[1] = "spirv-cross"
            /\ shaders[t].result.tag = "Err" =>
                /\ shaders[t].result.error = "ShaderCreationError"
                /\ shaders[t].result.stage = StageFlag(shaders[t].stage)

\* a fragment shader went through both translators and both failed
C23_Witness ==
    \E t \in DOMAIN shaders :
        /\ shaders[t].pc = "returned"
        /\ shaders[t].attempts = <<"naga", "cross">>
        /\ shaders[t].result.tag = "Err"
        /\ shaders[t].result.stage = "FRAGMENT"

(***************************************************************************)
(* create_descriptor_pool                                                  *)
(***************************************************************************)
MaxPoolSets == 3        \* max_sets of a descriptor pool
MaxPoolRanges == 1      \* descriptor ranges of a descriptor pool

\* the arguments pushed for the descriptor ranges: one per category of the
\* content of each range
PoolArguments(descriptor_ranges) ==
    [k \in DOMAIN descriptor_ranges |->
        LET content == DescriptorContentFrom(descriptor_ranges[k].ty)
        IN (IF "BUFFER" \in content
            THEN <<[ty |-> "Pointer", count |-> descriptor_ranges[k].count]>> ELSE <<>>)
           \o (IF "TEXTURE" \in content
               THEN <<[ty |-> "Texture", count |-> descriptor_ranges[k].count]>> ELSE <<>>)
           \o (IF "SAMPLER" \in content
               THEN <<[ty |-> "Sampler", count |-> descriptor_ranges[k].count]>> ELSE <<>>)]

\* the counters of an emulated pool, from the k-th descriptor range on
RECURSIVE PoolCounters(_, _, _)
PoolCounters(descriptor_ranges, k, counters) ==
    IF k > Len(descriptor_ranges) THEN counters
    ELSE PoolCounters(descriptor_ranges, k + 1,
            AddMany(counters, DescriptorContentFrom(descriptor_ranges[k].ty),
                    descriptor_ranges[k].count))

\* mutant: the buffer has no room for aligning the sets
create_descriptor_pool_unpadded(caps, max_sets, descriptor_ranges, encoded_length) ==
    [tag |-> "ArgumentBuffer",
     arguments |-> PoolArguments(descriptor_ranges),
     total_size |-> encoded_length,
     alignment |-> caps.buffer_alignment]

\* Device::create_descriptor_pool; caps is shared.private_caps, encoded_length
\* is what the argument encoder built from all the ranges reports
create_descriptor_pool(caps, max_sets, descriptor_ranges, encoded_length) ==
    IF caps.argument_buffers
    THEN [tag |-> "ArgumentBuffer",
          arguments |-> PoolArguments(descriptor_ranges),
          total_size |-> encoded_length + max_sets * caps.buffer_alignment,
          alignment |-> caps.buffer_alignment]
    ELSE [tag |-> "Emulated",
          counters |-> PoolCounters(descriptor_ranges, 1, ResourceDataNew)]

CreateDescriptorPool(caps, max_sets, descriptor_ranges, encoded_length) ==
    /\ aborted = ""
    /\ function_call = NoCall
    /\ function_call' =
        [op |-> "create_descriptor_pool",
         argument_buffers |-> caps.argument_buffers,
         max_sets |-> max_sets,
         descriptor_ranges |-> descriptor_ranges,
         encoded_length |-> encoded_length,
         buffer_alignment |-> caps.buffer_alignment,
         result |-> create_descriptor_pool(caps, max_sets, descriptor_ranges,
                                           encoded_length)]
    /\ UNCHANGED <<outside_function, aborted>>

\* inputs: private_caps.buffer_alignment is 256 on macOS and 64 on iOS
BufferAlignments == {64, 256}

EncodedLengths == {0, 8, 64, 200, 256, 1000}

DescriptorRanges ==
    SeqsUpTo([ty : {"Sampler", "CombinedImageSampler", "UniformBuffer"}, count : 1..2],
             MaxPoolRanges)

NextPool ==
    /\ function_call = NoCall
    /\ \E caps \in [argument_buffers : BOOLEAN, buffer_alignment : BufferAlignments],
          max_sets \in 0..MaxPoolSets, descriptor_ranges \in DescriptorRanges,
          encoded_length \in EncodedLengths :
        CreateDescriptorPool(caps, max_sets, descriptor_ranges, encoded_length)

SpecPool == InitDevice /\ [][NextPool]_vars

\* x rounded up to a multiple of the alignment
RoundedUp(x, alignment) == ((x + alignment - 1) \div alignment) * alignment

\* the call of create_descriptor_pool under the ArgumentBuffer strategy
ArgumentPool ==
    /\ function_call.op = "create_descriptor_pool"
    /\ function_call.argument_buffers

\* C24 as stated: the raw buffer of an ArgumentBuffer pool has the encoded
\* length rounded up to the buffer alignment, times max_sets, as its size.
C24_RoundedTimesSets ==
    ArgumentPool =>
        function_call.result.total_size =
            RoundedUp(function_call.encoded_length, function_call.buffer_alignment)
                * function_call.max_sets

\* C24 amended: the raw buffer of an ArgumentBuffer pool has the encoded length
\* reported by the encoder of all the pool's ranges plus max_sets times the
\* buffer alignment as its size, which leaves room for rounding the start of
\* each of up to max_sets sets up to the alignment when their encoded lengths
\* add up to at most the reported length.
C24_LengthPlusPadding ==
    ArgumentPool =>
        /\ function_call.result.total_size =
            function_call.encoded_length
                + function_call.max_sets * function_call.buffer_alignment
        /\ \A sets \in 0..function_call.max_sets :
            function_call.encoded_length + sets * (function_call.buffer_alignment - 1)
                <= function_call.result.total_size

\* two sets of 1000 encoded bytes: the buffer is smaller than two slices of
\* the rounded length
C24_Witness ==
    /\ ArgumentPool
    /\ function_call.max_sets = 2
    /\ function_call.encoded_length = 1000
    /\ function_call.buffer_alignment = 256
    /\ function_call.result.total_size < 2 * RoundedUp(1000, 256)

(***************************************************************************)
(* The aggregate counts of an Emulated descriptor set layout               *)
(***************************************************************************)
\* entries of the final layout list whose content has the category
EntriesWith(layouts, category) ==
    Cardinality({k \in DOMAIN layouts : category \in layouts[k].content})

\* C28: the `total` of every Emulated descriptor set layout equals, category
\* by category, the number of entries of its final (sorted, deduplicated)
\* list that have the category, also when declarations were merged.
C28_TotalMatchesEntries ==
    \A n \in EmulatedLayouts :
        LET layout == set_layouts[n].layout
        IN /\ layout.total.buffers = EntriesWith(layout.layouts, "BUFFER")
           /\ layout.total.textures = EntriesWith(layout.layouts, "TEXTURE")
           /\ layout.total.samplers = EntriesWith(layout.layouts, "SAMPLER")

(***************************************************************************)
(* write_descriptor_set                                                    *)
(***************************************************************************)
MaxDescriptors == 3     \* descriptors of one DescriptorSetWrite
PoolSlots == 6          \* slots of each category of an emulated pool

\* the first entry with layout.binding == op.binding && layout.array_index ==
\* op.array_offset, and the counters advanced over the entries before it
RECURSIVE ScanLayouts(_, _, _, _)
ScanLayouts(layouts, op, i, counters) ==
    IF i > Len(layouts) THEN [start |-> None, counters |-> counters]
    ELSE IF layouts[i].binding = op.binding /\ layouts[i].array_index = op.array_offset
         THEN [start |-> Some(i), counters |-> counters]
         ELSE ScanLayouts(layouts, op, i + 1, Add(counters, layouts[i].content))

\* the categories of pool slots the match arm of a descriptor assigns, in the
\* order of the assignments
SlotsOf(layout, descriptor) ==
    CASE descriptor.kind = "Sampler" -> <<"samplers">>
      [] descriptor.kind = "Image" -> <<"textures">>
      [] descriptor.kind = "CombinedImageSampler" ->
            IF "IMMUTABLE_SAMPLER" \in layout.content
            THEN <<"textures">>
            ELSE <<"samplers", "textures">>
      [] descriptor.kind = "TexelBuffer" -> <<"textures">>
      [] descriptor.kind = "Buffer" -> <<"buffers">>

\* data.<category>[counters.<category> as usize] = (layout.stages, Some(..), ..);
\* indices are 0-based, `writes` records each assignment
RECURSIVE StoreSlots(_, _, _, _, _)
StoreSlots(categories, layout, descriptor, position, acc) ==
    IF categories = <<>> \/ acc.tag # "Ok" THEN acc
    ELSE LET category == Head(categories)
             index == acc.counters[category]
         IN IF index >= Len(acc.data[category])
            THEN [acc EXCEPT !.tag = "Panic"]
            ELSE StoreSlots(Tail(categories), layout, descriptor, position,
                    [acc EXCEPT
                        !.data[category][index + 1] =
                            [stages |-> layout.stages, resource |-> descriptor.resource],
                        !.writes = Append(@, [resource |-> descriptor.resource,
                                              position |-> position,
                                              category |-> category,
                                              index |-> index])])

\* for (layout, descriptor) in layouts[start..].iter().zip(op.descriptors)
RECURSIVE WriteDescriptors(_, _, _, _, _, _)
WriteDescriptors(layouts, position, descriptors, i, acc, debug) ==
    IF position > Len(layouts) \/ i > Len(descriptors) \/ acc.tag # "Ok" THEN acc
    ELSE LET layout == layouts[position]
             descriptor == descriptors[i]
         IN IF /\ debug
               /\ descriptor.kind = "Sampler"
               /\ "IMMUTABLE_SAMPLER" \in layout.content
            THEN [acc EXCEPT !.tag = "Panic"]
            ELSE LET stored == StoreSlots(SlotsOf(layout, descriptor), layout,
                                          descriptor, position, acc)
                 IN WriteDescriptors(layouts, position + 1, descriptors, i + 1,
                        IF stored.tag = "Ok"
                        THEN [stored EXCEPT !.counters = Add(@, layout.content)]
                        ELSE stored,
                        debug)

\* mutant: the entries before the matching one are not counted
write_descriptor_set_emulated_uncounted(layouts, resources, data, op, debug) ==
    LET scan == ScanLayouts(layouts, op, 1, resources)
        acc == [tag |-> "Ok", counters |-> resources, data |-> data, writes |-> <<>>]
    IN IF ~IsSome(scan.start)
       THEN [acc EXCEPT !.tag = "Panic"]
       ELSE WriteDescriptors(layouts, Unwrap(scan.start), op.descriptors, 1, acc, debug)

\* the n::DescriptorSet::Emulated arm of write_descriptor_set; resources holds
\* the start of the set's range of each category, data is the pool's
\* DescriptorEmulatedPoolInner; start.unwrap() panics when no entry matches
write_descriptor_set_emulated(layouts, resources, data, op, debug) ==
    LET scan == ScanLayouts(layouts, op, 1, resources)
        acc == [tag |-> "Ok", counters |-> scan.counters, data |-> data,
                writes |-> <<>>]
    IN IF ~IsSome(scan.start)
       THEN [acc EXCEPT !.tag = "Panic"]
       ELSE WriteDescriptors(layouts, Unwrap(scan.start), op.descriptors, 1, acc, debug)

\* one turn of the loop of the ArgumentBuffer arm: `slot` is the 0-based index
\* in pool.resources of the entry zipped with the descriptor; `encoded`
\* records the encoder calls, `shadowed` the entries whose ptr is assigned
EncodeDescriptor(binding, slot, descriptor, i, acc, debug) ==
    LET arg_index == acc.arg_index
        encode(call, index) ==
            [call |-> call, index |-> index, descriptor |-> i, slot |-> slot]
        shadow(a) ==
            [a EXCEPT !.resources[slot + 1] = [ptr |-> descriptor.resource],
                      !.shadowed = Append(@, [descriptor |-> i, slot |-> slot])]
    IN CASE descriptor.kind = "Sampler" ->
              IF debug /\ "IMMUTABLE_SAMPLER" \in binding.content
              THEN [acc EXCEPT !.tag = "Panic"]
              ELSE [acc EXCEPT
                      !.encoded = Append(@, encode("set_sampler_state", arg_index)),
                      !.arg_index = @ + 1]
         [] descriptor.kind = "Image" ->
              shadow([acc EXCEPT
                      !.encoded = Append(@, encode("set_texture", arg_index)),
                      !.arg_index = @ + 1])
         [] descriptor.kind = "CombinedImageSampler" ->
              IF "IMMUTABLE_SAMPLER" \in binding.content
              THEN shadow([acc EXCEPT
                      !.encoded = Append(@, encode("set_texture", arg_index))])
              ELSE IF ~(arg_index < binding.res_offset + binding.count)
                   THEN [acc EXCEPT !.tag = "Panic"]
                   ELSE shadow([acc EXCEPT
                          !.encoded = @ \o
                              <<encode("set_sampler_state", arg_index + binding.count),
                                encode("set_texture", arg_index)>>])
         [] descriptor.kind = "TexelBuffer" ->
              shadow([acc EXCEPT
                      !.encoded = Append(@, encode("set_texture", arg_index)),
                      !.arg_index = @ + 1])
         [] descriptor.kind = "Buffer" ->
              shadow([acc EXCEPT
                      !.encoded = Append(@, encode("set_buffer", arg_index)),
                      !.arg_index = @ + 1])

\* for (data, descriptor) in pool.write().resources[first..range.end]
\*     .iter_mut().zip(op.descriptors)
RECURSIVE EncodeDescriptors(_, _, _, _, _, _, _)
EncodeDescriptors(binding, slot, end, descriptors, i, acc, debug) ==
    IF slot >= end \/ i > Len(descriptors) \/ acc.tag # "Ok" THEN acc
    ELSE EncodeDescriptors(binding, slot + 1, end, descriptors, i + 1,
            EncodeDescriptor(binding, slot, descriptors[i], i, acc, debug), debug)

\* the n::DescriptorSet::ArgumentBuffer arm of write_descriptor_set; bindings
\* maps a binding to its ArgumentLayout, range is the set's part of
\* pool.resources; indexing bindings with an unknown binding and slicing from
\* beyond range.end panic
write_descriptor_set_argument_buffer(bindings, range, resources, op, debug) ==
    LET acc == [tag |-> "Ok", arg_index |-> 0, resources |-> resources,
                encoded |-> <<>>, shadowed |-> <<>>]
    IN IF op.binding \notin DOMAIN bindings
       THEN [acc EXCEPT !.tag = "Panic"]
       ELSE LET binding == bindings[op.binding]
                arg_index == binding.res_offset + op.array_offset
            IN IF \/ debug /\ ~(op.array_offset < binding.count)
                  \/ range.start + arg_index > range.end
                  \/ range.end > Len(resources)
               THEN [acc EXCEPT !.tag = "Panic"]
               ELSE EncodeDescriptors(binding, range.start + arg_index, range.end,
                        op.descriptors, 1, [acc EXCEPT !.arg_index = arg_index],
                        debug)

\* Device::write_descriptor_set: match *op.set
write_descriptor_set(set, pool, op, debug) ==
    IF set.kind = "Emulated"
    THEN write_descriptor_set_emulated(set.layouts, set.resources, pool, op, debug)
    ELSE write_descriptor_set_argument_buffer(set.bindings, set.range, pool, op, debug)

\* a panic ends the process
WriteDescriptorSet(set, pool, op) ==
    /\ aborted = ""
    /\ function_call = NoCall
    /\ (set.kind = "ArgumentBuffer") = argument_buffers
    /\ LET result == write_descriptor_set(set, pool, op, debug_assertions)
       IN /\ function_call' =
                [op |-> "write_descriptor_set",
                 set |-> set,
                 pool |-> pool,
                 binding |-> op.binding,
                 array_offset |-> op.array_offset,
                 descriptors |-> op.descriptors,
                 result |-> result]
          /\ aborted' = IF result.tag = "Panic" THEN "write_descriptor_set" ELSE ""
    /\ UNCHANGED <<outside_function>>

\* inputs: the binding lists the Emulated sets are laid out from
WriteBindingIters ==
    { <<Slb(0, "UniformBuffer", 1, {"VERTEX"}, FALSE),
        Slb(1, "CombinedImageSampler", 2, {"FRAGMENT"}, FALSE),
        Slb(2, "Sampler", 1, {"FRAGMENT"}, FALSE)>>,
      <<Slb(1, "StorageBuffer", 2, {"COMPUTE"}, FALSE),
        Slb(0, "SampledImage", 1, {"COMPUTE"}, FALSE),
        Slb(0, "SampledImage", 1, {"VERTEX"}, FALSE)>>,
      <<Slb(0, "CombinedImageSampler", 1, {"FRAGMENT"}, TRUE),
        Slb(2, "UniformBuffer", 2, {"VERTEX", "FRAGMENT"}, FALSE)>>,
      <<>> }

\* the starts of the ranges a set was allocated in its pool
RangeStarts ==
    { ResourceDataNew, [buffers |-> 1, textures |-> 2, samplers |-> 1] }

EmulatedSets ==
    { [kind |-> "Emulated",
       layouts |-> create_descriptor_set_layout(b, FALSE, FALSE).value.layouts,
       resources |-> r] : b \in WriteBindingIters, r \in RangeStarts }

\* a pool nothing was written to
EmulatedPool ==
    LET empty == [k \in 1..PoolSlots |-> [stages |-> {}, resource |-> 0]]
    IN [buffers |-> empty, textures |-> empty, samplers |-> empty]

\* the ArgumentLayout of each binding of an ArgumentBuffer layout: res_offset is
\* the first slot arguments.push gave the binding, a combined image sampler
\* has count texture slots followed by count sampler slots
ArgumentBindings ==
    { (0 :> [res_offset |-> 0, count |-> 2, content |-> {"BUFFER"}])
        @@ (1 :> [res_offset |-> 2, count |-> 2, content |-> {"TEXTURE", "SAMPLER"}])
        @@ (2 :> [res_offset |-> 6, count |-> 1, content |-> {"SAMPLER"}]),
      (0 :> [res_offset |-> 0, count |-> 1, content |-> {"TEXTURE", "SAMPLER"}])
        @@ (1 :> [res_offset |-> 2, count |-> 3, content |-> {"TEXTURE"}]) }

\* arg_total: the slots pushed for all the bindings of a layout
RECURSIVE ArgumentTotal(_, _)
ArgumentTotal(bindings, keys) ==
    IF keys = {} THEN 0
    ELSE LET k == CHOOSE x \in keys : TRUE
         IN bindings[k].count
                * Cardinality(bindings[k].content \cap {"BUFFER", "TEXTURE", "SAMPLER"})
            + ArgumentTotal(bindings, keys \ {k})

\* sets allocated first and second in a pool of sets of one layout
ArgumentBufferSets ==
    { [kind |-> "ArgumentBuffer",
       bindings |-> b,
       range |-> [start |-> n * ArgumentTotal(b, DOMAIN b),
                  end |-> (n + 1) * ArgumentTotal(b, DOMAIN b)]] :
        b \in ArgumentBindings, n \in {0, 1} }

\* the shadow table of a pool nothing was written to
ArgumentResources == [k \in 1..(2 * PoolSlots + 2) |-> [ptr |-> 0]]

DescriptorKinds == {"Sampler", "Image", "CombinedImageSampler", "TexelBuffer", "Buffer"}

\* the i-th descriptor of a write names the resource i
DescriptorSeqs ==
    { [i \in DOMAIN kinds |-> [kind |-> kinds[i], resource |-> i]] :
        kinds \in SeqsUpTo(DescriptorKinds, MaxDescriptors) }

DescriptorSetWrites ==
    [binding : 0..3, array_offset : 0..2, descriptors : DescriptorSeqs]

NextWrite ==
    /\ function_call = NoCall
    /\ \/ \E set \in EmulatedSets, op \in DescriptorSetWrites :
            WriteDescriptorSet(set, EmulatedPool, op)
       \/ \E set \in ArgumentBufferSets, op \in DescriptorSetWrites :
            WriteDescriptorSet(set, ArgumentResources, op)

SpecWrite == Init /\ [][NextWrite]_vars

(***************************************************************************)
(* Writes to an Emulated descriptor set                                    *)
(***************************************************************************)
\* the call of write_descriptor_set on an Emulated set
EmulatedWrite ==
    /\ function_call.op = "write_descriptor_set"
    /\ function_call.set.kind = "Emulated"

\* the positions of the entries with (binding, array index) = (B, k)
Matching(layouts, B, k) ==
    {j \in DOMAIN layouts : layouts[j].binding = B /\ layouts[j].array_index = k}

\* the DescriptorContent flag of a category of pool slots
FlagOf(category) ==
    CASE category = "buffers" -> "BUFFER"
      [] category = "textures" -> "TEXTURE"
      [] category = "samplers" -> "SAMPLER"

\* entries at positions before `position` whose content includes the category
EntriesBefore(layouts, position, category) ==
    Cardinality({j \in 1..(position - 1) : FlagOf(category) \in layouts[j].content})

\* C25: a write to (B, k) of an Emulated set that returns stores the i-th
\* descriptor for the entry at position p+i, p being the first entry with
\* (binding, array index) = (B, k), at the pool index range start + entries
\* before p+i that have the category; it consumes at most (layout length - p)
\* descriptors and leaves every other slot as it was; without a matching entry
\* the call aborts and nothing is written.
C25_WritesAtCountedSlots ==
    EmulatedWrite =>
        LET layouts == function_call.set.layouts
            starts == function_call.set.resources
            result == function_call.result
            matching == Matching(layouts, function_call.binding,
                                 function_call.array_offset)
            p == CHOOSE j \in matching : \A x \in matching : j <= x
            n == Len(function_call.descriptors)
            consumed == IF n <= Len(layouts) - p + 1 THEN n ELSE Len(layouts) - p + 1
            writes == {result.writes[w] : w \in DOMAIN result.writes}
        IN IF matching = {}
           THEN /\ result.tag = "Panic"
                /\ result.data = function_call.pool
                /\ result.writes = <<>>
           ELSE result.tag = "Ok" =>
                /\ \A w \in writes :
                    /\ w.resource \in 1..consumed
                    /\ w.position = p + w.resource - 1
                    /\ w.index = starts[w.category]
                                    + EntriesBefore(layouts, w.position, w.category)
                /\ \A i \in 1..consumed : \E w \in writes : w.resource = i
                /\ \A category \in {"buffers", "textures", "samplers"} :
                    \A slot \in 1..PoolSlots :
                        LET last == {w \in DOMAIN result.writes :
                                        /\ result.writes[w].category = category
                                        /\ result.writes[w].index + 1 = slot}
                        IN IF last = {}
                           THEN result.data[category][slot]
                                    = function_call.pool[category][slot]
                           ELSE \E w \in last :
                                /\ \A x \in last : x <= w
                                /\ result.data[category][slot].resource
                                    = result.writes[w].resource
                                /\ result.data[category][slot].stages
                                    = layouts[result.writes[w].position].stages

\* two combined image samplers written behind a buffer entry into ranges that
\* do not start at zero: the second one lands one texture and one sampler
\* slot after the first
C25_Witness ==
    /\ EmulatedWrite
    /\ function_call.result.tag = "Ok"
    /\ function_call.set.resources.textures = 2
    /\ function_call.binding = 1
    /\ Len(function_call.descriptors) = 2
    /\ \E w \in DOMAIN function_call.result.writes :
        /\ function_call.result.writes[w].resource = 2
        /\ function_call.result.writes[w].category = "textures"
        /\ function_call.result.writes[w].index = 3
        /\ function_call.result.writes[w].position = 3

(***************************************************************************)
(* Writes to an ArgumentBuffer descriptor set                              *)
(***************************************************************************)
\* the call of write_descriptor_set on an ArgumentBuffer set
ArgumentBufferWrite ==
    /\ function_call.op = "write_descriptor_set"
    /\ function_call.set.kind = "ArgumentBuffer"
    /\ function_call.result.tag = "Ok"

\* the encoder calls that place the resource of a descriptor: the texture of
\* a combined image sampler, the only call of every other kind
Placements ==
    LET encoded == function_call.result.encoded
    IN {encoded[e] : e \in {x \in DOMAIN encoded :
            \/ encoded[x].call # "set_sampler_state"
            \/ function_call.descriptors[encoded[x].descriptor].kind = "Sampler"}}

\* C27: a write to (B, k) of an ArgumentBuffer set encodes the i-th descriptor
\* at argument index res_offset(B) + k + i with the pool resource at
\* range.start + res_offset(B) + k + i as its shadow-table entry, whatever its
\* kind, so no two descriptors of the write share an argument index.
C27_LockstepIndices ==
    ArgumentBufferWrite =>
        LET first == function_call.set.bindings[function_call.binding].res_offset
                        + function_call.array_offset
        IN /\ \A e \in Placements :
                /\ e.index = first + e.descriptor - 1
                /\ e.slot = function_call.set.range.start + first + e.descriptor - 1
           /\ \A e1, e2 \in Placements :
                e1.descriptor # e2.descriptor => e1.index # e2.index

(***************************************************************************)
(* create_render_pass                                                      *)
(***************************************************************************)
MaxSubpasses == 3       \* subpasses of a render pass
MaxColors == 1          \* colour attachments of a subpass
\* the bits of use_mask, a u64
MaskBits == 64

\* the uses of attachments by subpass s in the order of the loops: the colours,
\* then the depth-stencil attachment (colour 0)
UsesOf(subpasses, s) ==
    [j \in 1..Len(subpasses[s].colors) |-> [subpass |-> s, color |-> j]]
        \o (IF IsSome(subpasses[s].depth_stencil)
            THEN <<[subpass |-> s, color |-> 0]>>
            ELSE <<>>)

\* subpasses.iter_mut()
RECURSIVE UsesForward(_, _)
UsesForward(subpasses, s) ==
    IF s > Len(subpasses) THEN <<>>
    ELSE UsesOf(subpasses, s) \o UsesForward(subpasses, s + 1)

\* subpasses.iter_mut().rev()
RECURSIVE UsesBackward(_, _)
UsesBackward(subpasses, s) ==
    IF s < 1 THEN <<>>
    ELSE UsesOf(subpasses, s) \o UsesBackward(subpasses, s - 1)

\* at.id of a use
IdOf(subpasses, use) ==
    IF use.color = 0
    THEN Unwrap(subpasses[use.subpass].depth_stencil).id
    ELSE subpasses[use.subpass].colors[use.color].id

\* at.ops |= flag
SetOps(subpasses, use, flag) ==
    IF use.color = 0
    THEN [subpasses EXCEPT ![use.subpass].depth_stencil =
            Some([Unwrap(@) EXCEPT !.ops = @ \cup {flag}])]
    ELSE [subpasses EXCEPT ![use.subpass].colors[use.color].ops = @ \cup {flag}]

\* the body of the loops over the uses: 1 << at.id overflows for an id of 64
\* or more, which panics in a build with overflow checks and takes the id
\* modulo 64 otherwise; use_mask is the set of its one bits; LOAD goes to a
\* use whose bit is clear, STORE to a use whose bit is set, and the bit flips
SprinkleOne(uses, flag, acc, debug) ==
    IF debug /\ IdOf(acc.subpasses, uses[1]) >= MaskBits
    THEN [acc EXCEPT !.tag = "Panic"]
    ELSE LET bit == IdOf(acc.subpasses, uses[1]) % MaskBits
         IN IF (flag = "LOAD") = (bit \notin acc.use_mask)
            THEN [acc EXCEPT !.subpasses = SetOps(@, uses[1], flag),
                             !.use_mask = IF bit \in @ THEN @ \ {bit} ELSE @ \cup {bit}]
            ELSE acc

RECURSIVE Sprinkle(_, _, _, _)
Sprinkle(uses, flag, acc, debug) ==
    IF uses = <<>> \/ acc.tag # "Ok" THEN acc
    ELSE Sprinkle(Tail(uses), flag, SprinkleOne(uses, flag, acc, debug), debug)

\* Device::create_render_pass, the attachment operations of the subpasses;
\* every AttachmentInfo starts with ops: AttachmentOps::empty()
create_render_pass(subpasses, debug) ==
    LET infos == [s \in DOMAIN subpasses |->
                    [colors |-> [j \in DOMAIN subpasses[s].colors |->
                                    [id |-> subpasses[s].colors[j], ops |-> {}]],
                     depth_stencil |->
                        IF IsSome(subpasses[s].depth_stencil)
                        THEN Some([id |-> Unwrap(subpasses[s].depth_stencil),
                                   ops |-> {}])
                        ELSE None]]
        loaded == Sprinkle(UsesForward(infos, 1), "LOAD",
                           [tag |-> "Ok", subpasses |-> infos, use_mask |-> {}], debug)
    IN Sprinkle(UsesBackward(infos, Len(infos)), "STORE", loaded, debug)

CreateRenderPass(subpasses) ==
    /\ aborted = ""
    /\ function_call = NoCall
    /\ LET result == create_render_pass(subpasses, debug_assertions)
       IN /\ function_call' = [op |-> "create_render_pass",
                               subpasses |-> subpasses,
                               result |-> result]
          /\ aborted' = IF result.tag = "Panic" THEN "create_render_pass" ELSE ""
    /\ UNCHANGED <<outside_function>>

\* inputs: attachments 0, 1 and 64 of a render pass with 65 attachments
AttachmentIds == {0, 1, 64}

SubpassDescs ==
    SeqsUpTo([colors : SeqsUpTo(AttachmentIds, MaxColors),
              depth_stencil : {None} \cup {Some(id) : id \in AttachmentIds}],
             MaxSubpasses)

NextRenderPass ==
    /\ function_call = NoCall
    /\ \E subpasses \in SubpassDescs : CreateRenderPass(subpasses)

SpecRenderPass == Init /\ [][NextRenderPass]_vars

\* the render pass create_render_pass returned
RenderPass == function_call.result.subpasses

AllUses ==
    LET uses == UsesForward(RenderPass, 1)
    IN {uses[u] : u \in DOMAIN uses}

\* the uses of attachment id in the render pass returned
UsesOfId(id) == {use \in AllUses : IdOf(RenderPass, use) = id}

OpsOf(use) ==
    IF use.color = 0
    THEN Unwrap(RenderPass[use.subpass].depth_stencil).ops
    ELSE RenderPass[use.subpass].colors[use.color].ops

\* C26: in the render pass create_render_pass returns, every attachment used
\* as a colour or depth-stencil attachment has LOAD on exactly one use, in the
\* first subpass that uses it, and STORE on exactly one use, in the last
\* subpass that uses it; its uses in other subpasses have neither flag.
C26_LoadFirstStoreLast ==
    (function_call.op = "create_render_pass" /\ function_call.result.tag = "Ok") =>
        \A id \in AttachmentIds :
            UsesOfId(id) # {} =>
                LET first == CHOOSE s \in 1..MaxSubpasses :
                                /\ \E use \in UsesOfId(id) : use.subpass = s
                                /\ \A use \in UsesOfId(id) : s <= use.subpass
                    last == CHOOSE s \in 1..MaxSubpasses :
                                /\ \E use \in UsesOfId(id) : use.subpass = s
                                /\ \A use \in UsesOfId(id) : s >= use.subpass
                    loads == {use \in UsesOfId(id) : "LOAD" \in OpsOf(use)}
                    stores == {use \in UsesOfId(id) : "STORE" \in OpsOf(use)}
                IN /\ Cardinality(loads) = 1
                   /\ \A use \in loads : use.subpass = first
                   /\ Cardinality(stores) = 1
                   /\ \A use \in stores : use.subpass = last
                   /\ \A use \in UsesOfId(id) :
                        use.subpass \notin {first, last} => OpsOf(use) = {}

(***************************************************************************)
(* get_buffer_requirements and get_image_requirements                      *)
(***************************************************************************)
\* const SIZE_MASK: u64 = 0xFF
SIZE_MASK == 255

\* MemoryTypes::all().bits()
AllMemoryTypes == PRIVATE + SHARED + MANAGED_UPLOAD

\* the largest of the heap requirements over the memory types 0..count-1 that
\* `types` contains; heap[i + 1] is what the driver reports for type i
RECURSIVE MaxRequirements(_, _, _, _)
MaxRequirements(heap, count, types, acc) ==
    IF count = 0 THEN acc
    ELSE MaxRequirements(heap, count - 1, types,
            IF (types \div 2 ^ (count - 1)) % 2 = 1
            THEN [size |-> MaxOf(acc.size, heap[count].size),
                  align |-> MaxOf(acc.align, heap[count].align)]
            ELSE acc)

\* Device::get_buffer_requirements; sizes stay far below 2^64, so that
\* max_size + SIZE_MASK does not overflow
get_buffer_requirements(types, caps, buffer, heap) ==
    IF buffer.tag # "Unbound"
    THEN [tag |-> "Panic"]
    ELSE LET max == IF caps.resource_heaps
                    THEN MaxRequirements(heap, Len(types), AllMemoryTypes,
                            [size |-> buffer.size, align |-> caps.buffer_alignment])
                    ELSE [size |-> buffer.size, align |-> caps.buffer_alignment]
         IN [tag |-> "Ok",
             size |-> AndNot(max.size + SIZE_MASK, SIZE_MASK),
             alignment |-> max.align,
             type_mask |-> IF ~buffer.texel_view \/ caps.shared_textures
                           THEN AllMemoryTypes
                           ELSE AllMemoryTypes - SHARED]

RECURSIVE SumOf(_)
SumOf(sizes) == IF sizes = <<>> THEN 0 ELSE Head(sizes) + SumOf(Tail(sizes))

\* Device::get_image_requirements
get_image_requirements(types, caps, image, heap) ==
    IF image.like.tag # "Unbound"
    THEN [tag |-> "Panic"]
    ELSE IF caps.resource_heaps
         THEN LET mask == IF image.host_visible THEN AllMemoryTypes ELSE PRIVATE
                  max == MaxRequirements(heap, Len(types), mask,
                                         [size |-> 0, align |-> 0])
              IN [tag |-> "Ok", size |-> max.size, alignment |-> max.align,
                  type_mask |-> mask]
         ELSE IF image.host_visible
              THEN IF Len(image.like.mip_sizes) # 1
                   THEN [tag |-> "Panic"]
                   ELSE [tag |-> "Ok",
                         size |-> AndNot(image.like.mip_sizes[1]
                                            + caps.buffer_alignment - 1,
                                         caps.buffer_alignment - 1),
                         alignment |-> caps.buffer_alignment,
                         type_mask |-> AllMemoryTypes]
              ELSE [tag |-> "Ok",
                    size |-> SumOf(image.like.mip_sizes),
                    alignment |-> 4,
                    type_mask |-> PRIVATE]

GetBufferRequirements(os_is_mac, caps, buffer, heap) ==
    /\ aborted = ""
    /\ function_call = NoCall
    /\ LET result == get_buffer_requirements(MemoryTypeTable(os_is_mac), caps,
                                             buffer, heap)
       IN /\ function_call' = [op |-> "get_buffer_requirements",
                               memory_types |-> MemoryTypeTable(os_is_mac),
                               caps |-> caps,
                               buffer |-> buffer,
                               result |-> result]
          /\ aborted' = IF result.tag = "Panic" THEN "get_buffer_requirements" ELSE ""
    /\ UNCHANGED <<outside_function>>

GetImageRequirements(os_is_mac, caps, image, heap) ==
    /\ aborted = ""
    /\ function_call = NoCall
    /\ LET result == get_image_requirements(MemoryTypeTable(os_is_mac), caps,
                                            image, heap)
       IN /\ function_call' = [op |-> "get_image_requirements",
                               memory_types |-> MemoryTypeTable(os_is_mac),
                               caps |-> caps,
                               image |-> image,
                               result |-> result]
          /\ aborted' = IF result.tag = "Panic" THEN "get_image_requirements" ELSE ""
    /\ UNCHANGED <<outside_function>>

\* inputs
RequirementCaps ==
    [resource_heaps : BOOLEAN, shared_textures : BOOLEAN,
     buffer_alignment : BufferAlignments]

\* what heap_buffer_size_and_align and heap_texture_size_and_align report for
\* the memory types 0, 1 and 2
HeapRequirements ==
    { <<[size |-> 16, align |-> 16], [size |-> 16, align |-> 16],
        [size |-> 16, align |-> 16]>>,
      <<[size |-> 512, align |-> 64], [size |-> 300, align |-> 1024],
        [size |-> 1000, align |-> 256]>> }

RequirementBuffers ==
    { [create_buffer(size) EXCEPT !.tag = tag] @@ [texel_view |-> t] :
        size \in {0, 1, 256, 300}, tag \in {"Unbound", "Bound"}, t \in BOOLEAN }

RequirementImages ==
    { [create_image(mip_sizes) EXCEPT !.like.tag = tag] @@ [host_visible |-> h] :
        mip_sizes \in {<<8>>, <<300>>, <<8, 4>>}, tag \in {"Unbound", "Texture"},
        h \in BOOLEAN }

NextRequirements ==
    /\ function_call = NoCall
    /\ \E os_is_mac \in BOOLEAN, caps \in RequirementCaps, heap \in HeapRequirements :
        \/ \E buffer \in RequirementBuffers :
                GetBufferRequirements(os_is_mac, caps, buffer, heap)
        \/ \E image \in RequirementImages :
                GetImageRequirements(os_is_mac, caps, image, heap)

SpecRequirements == InitDevice /\ [][NextRequirements]_vars

\* C29: every bit set in the type_mask of the requirements of a buffer or an
\* image is the index of a memory type of the device, with three memory types
\* and with two; the size reported for a buffer is at least its declared
\* size and a multiple of 256, its alignment at least the buffer alignment.
C29_MaskWithinTypes ==
    (/\ function_call.op \in {"get_buffer_requirements", "get_image_requirements"}
     /\ function_call.result.tag = "Ok") =>
        /\ \A i \in 0..15 :
            (function_call.result.type_mask \div 2 ^ i) % 2 = 1
                => i < Len(function_call.memory_types)
        /\ function_call.op = "get_buffer_requirements" =>
            /\ function_call.result.size >= function_call.buffer.size
            /\ function_call.result.size % 256 = 0
            /\ function_call.result.alignment >= function_call.caps.buffer_alignment

(***************************************************************************)
(* create_graphics_pipeline: the vertex buffers                            *)
(***************************************************************************)
MaxAttributes == 5      \* vertex attributes of a pipeline
\* const STRIDE_GRANULARITY: pso::ElemStride = 4
STRIDE_GRANULARITY == 4

\* handle wrapping offsets: (cut_offset, base_offset)
WrapOffsets(offset, elem_size, stride) ==
    IF stride = 0 \/ offset + elem_size <= stride
    THEN [cut_offset |-> offset, base_offset |-> 0]
    ELSE LET remainder == offset % stride
         IN IF remainder + elem_size <= stride
            THEN [cut_offset |-> remainder, base_offset |-> offset - remainder]
            ELSE [cut_offset |-> 0, base_offset |-> offset]

\* vertex_buffers.iter().position(..): 0-based, Len(vertex_buffers) when absent
RECURSIVE PositionOf(_, _, _, _)
PositionOf(vertex_buffers, binding, base_offset, i) ==
    IF i > Len(vertex_buffers) THEN Len(vertex_buffers)
    ELSE IF /\ vertex_buffers[i].binding = binding
            /\ vertex_buffers[i].base_offset = base_offset
         THEN i - 1
         ELSE PositionOf(vertex_buffers, binding, base_offset, i + 1)

\* the body of the loop over the attributes; the subtraction on ResourceIndex
\* (u32) panics in a build with overflow checks when relative_index exceeds
\* max_buffers_per_stage - 1 and wraps otherwise: the wrapped word is written
\* as its two's complement value, which as an unsigned word is above every
\* buffer count
MapAttribute(attribute, desc_vertex_buffers, vs_buffers, acc, debug) ==
    LET found == {i \in DOMAIN desc_vertex_buffers :
                    desc_vertex_buffers[i].binding = attribute.binding}
    IN IF found = {}
       THEN [acc EXCEPT !.tag = "Panic"]
       ELSE LET original == desc_vertex_buffers[CHOOSE i \in found :
                                                    \A j \in found : i <= j]
                offsets == WrapOffsets(attribute.offset, attribute.elem_size,
                                       original.stride)
                relative_index == PositionOf(acc.vertex_buffers, attribute.binding,
                                             offsets.base_offset, 1)
                vertex_buffers ==
                    IF relative_index = Len(acc.vertex_buffers)
                    THEN Append(acc.vertex_buffers,
                                [binding |-> original.binding,
                                 stride |-> original.stride,
                                 base_offset |-> offsets.base_offset])
                    ELSE acc.vertex_buffers
                mtl_buffer_index == max_buffers_per_stage - 1 - relative_index
            IN IF debug /\ mtl_buffer_index < 0
               THEN [acc EXCEPT !.tag = "Panic", !.vertex_buffers = vertex_buffers]
               ELSE IF mtl_buffer_index >= 0 /\ mtl_buffer_index < vs_buffers
                    THEN [acc EXCEPT !.tag = "Err", !.vertex_buffers = vertex_buffers]
                    ELSE [acc EXCEPT
                            !.vertex_buffers = vertex_buffers,
                            !.attributes = Append(@,
                                [binding |-> attribute.binding,
                                 offset |-> attribute.offset,
                                 buffer_index |-> mtl_buffer_index,
                                 cut_offset |-> offsets.cut_offset,
                                 base_offset |-> offsets.base_offset])]

RECURSIVE MapAttributes(_, _, _, _, _)
MapAttributes(attributes, desc_vertex_buffers, vs_buffers, acc, debug) ==
    IF attributes = <<>> \/ acc.tag # "Ok" THEN acc
    ELSE MapAttributes(Tail(attributes), desc_vertex_buffers, vs_buffers,
            MapAttribute(Head(attributes), desc_vertex_buffers, vs_buffers, acc, debug),
            debug)

\* the loop over vertex_buffers: layouts().object_at(max_buffers_per_stage - 1
\* - i) has no layout for an index that is not below the number of layouts
\* (the subtraction on u64 wraps or panics first), so the expect panics; a
\* stride that is no multiple of STRIDE_GRANULARITY is an error
RECURSIVE DescribeLayouts(_, _, _)
DescribeLayouts(vertex_buffers, i, acc) ==
    IF i > Len(vertex_buffers) \/ acc.tag # "Ok" THEN acc
    ELSE DescribeLayouts(vertex_buffers, i + 1,
            IF max_buffers_per_stage - 1 - (i - 1) < 0
            THEN [acc EXCEPT !.tag = "Panic"]
            ELSE IF vertex_buffers[i].stride % STRIDE_GRANULARITY # 0
                 THEN [acc EXCEPT !.tag = "Err"]
                 ELSE acc)

\* Device::create_graphics_pipeline, from `// Vertex buffers` on; vs_buffers is
\* pipeline_layout.total.vs.buffers
create_graphics_pipeline(attributes, desc_vertex_buffers, vs_buffers, debug) ==
    LET mapped == MapAttributes(attributes, desc_vertex_buffers, vs_buffers,
                    [tag |-> "Ok", vertex_buffers |-> <<>>, attributes |-> <<>>],
                    debug)
    IN DescribeLayouts(mapped.vertex_buffers, 1, mapped)

CreateGraphicsPipeline(attributes, desc_vertex_buffers, vs_buffers) ==
    /\ aborted = ""
    /\ function_call = NoCall
    /\ LET result == create_graphics_pipeline(attributes, desc_vertex_buffers,
                                              vs_buffers, debug_assertions)
       IN /\ function_call' = [op |-> "create_graphics_pipeline",
                               attributes |-> attributes,
                               desc_vertex_buffers |-> desc_vertex_buffers,
                               vs_buffers |-> vs_buffers,
                               result |-> result]
          /\ aborted' = IF result.tag = "Panic" THEN "create_graphics_pipeline" ELSE ""
    /\ UNCHANGED <<outside_function>>

\* inputs: the vertex buffers the pipeline declares
VertexBufferDescs ==
    { <<[binding |-> 0, stride |-> 4], [binding |-> 1, stride |-> 8]>>,
      <<[binding |-> 0, stride |-> 0], [binding |-> 1, stride |-> 6]>> }

AttributeDescs ==
    { [binding |-> 0, offset |-> 0, elem_size |-> 4],
      [binding |-> 0, offset |-> 4, elem_size |-> 4],
      [binding |-> 0, offset |-> 8, elem_size |-> 4],
      [binding |-> 0, offset |-> 12, elem_size |-> 4],
      [binding |-> 1, offset |-> 12, elem_size |-> 4],
      [binding |-> 1, offset |-> 6, elem_size |-> 4] }

NextPipeline ==
    /\ function_call = NoCall
    /\ \E attributes \in SeqsUpTo(AttributeDescs, MaxAttributes),
          desc_vertex_buffers \in VertexBufferDescs, vs_buffers \in {0, 1, 3} :
        CreateGraphicsPipeline(attributes, desc_vertex_buffers, vs_buffers)

\* a device without argument buffers, in either build
InitEmulated == Init /\ ~argument_buffers

SpecPipeline == InitEmulated /\ [][NextPipeline]_vars

\* the call of create_graphics_pipeline
PipelineCall == function_call.op = "create_graphics_pipeline"

\* the (binding, base offset) pairs of the attributes up to the k-th
PairsUpTo(k) ==
    {LET a == function_call.attributes[i]
         stride == (CHOOSE vb \in {function_call.desc_vertex_buffers[j] :
                                    j \in DOMAIN function_call.desc_vertex_buffers} :
                        vb.binding = a.binding).stride
     IN <<a.binding, WrapOffsets(a.offset, a.elem_size, stride).base_offset>> :
        i \in 1..k}

\* C30: when create_graphics_pipeline succeeds, the attributes of the k-th
\* distinct (binding, base offset) pair, in the order of first appearance
\* from 0, have the buffer index max_buffers_per_stage - 1 - k; different
\* pairs have different indices, none below the vertex-stage buffer count of
\* the pipeline layout, and cut_offset + base_offset is the declared offset.
\* Whenever the pairs are so many that an index would fall below the
\* vertex-stage buffer count, the call returns Err(CreationError::Other).
C30_VertexBufferIndices ==
    PipelineCall =>
        LET result == function_call.result
            n == Len(function_call.attributes)
        IN /\ result.tag = "Ok" =>
                /\ Len(result.attributes) = n
                /\ \A i \in 1..n :
                    LET a == result.attributes[i]
                    IN /\ <<a.binding, a.base_offset>> \in PairsUpTo(i)
                       /\ a.cut_offset + a.base_offset = function_call.attributes[i].offset
                       /\ a.buffer_index >= function_call.vs_buffers
                       /\ \E k \in 0..(n - 1) :
                            /\ a.buffer_index = max_buffers_per_stage - 1 - k
                            /\ \E j \in 1..i :
                                /\ <<a.binding, a.base_offset>> \in PairsUpTo(j)
                                /\ <<a.binding, a.base_offset>> \notin PairsUpTo(j - 1)
                                /\ Cardinality(PairsUpTo(j)) = k + 1
                /\ \A i, j \in 1..n :
                    LET a == result.attributes[i]
                        b == result.attributes[j]
                    IN <<a.binding, a.base_offset>> # <<b.binding, b.base_offset>>
                        => a.buffer_index # b.buffer_index
           /\ max_buffers_per_stage - Cardinality(PairsUpTo(n)) < function_call.vs_buffers
                => result.tag = "Err"

====
